---- MODULE Spec2Model ----
(***************************************************************************)
(* The plugin sandbox of rpa-elysium (crates/rpa-plugin): the permission   *)
(* model (permissions.rs), the host-call mediation of one sandbox state    *)
(* (sandbox.rs, SandboxState) and one plugin invocation (Sandbox::execute).*)
(*                                                                         *)
(* A path is the text the guest or the configuration supplies: a sequence  *)
(* of one-character strings.  std::path parses it into components, and     *)
(* std::fs resolves it against the filesystem; both are modelled by what   *)
(* they do, over a small filesystem whose entries may be directories,      *)
(* regular files or symbolic links.                                        *)
(***************************************************************************)
EXTENDS Integers, Sequences, FiniteSets, TLC

VARIABLES
    fs,            \* the filesystem: entry -> "none" | "dir" | "file" | "link"
    now,           \* the monotonic clock (Instant::now()), in milliseconds
    permissions,   \* SandboxState.permissions
    logs,          \* SandboxState.logs
    work_dir,      \* SandboxState.work_dir
    start_time,    \* SandboxState.start_time
    timeout_ms,    \* SandboxState.timeout_ms
    request,       \* the HostRequest handle_request was last called with
    response,      \* the HostResponse it returned
    performed,     \* the operations that call performed on the host
    timed_out,     \* whether some request of this state has failed check_timeout
    granted,       \* Permission::covers: self
    requested,     \* Permission::covers: the requested permission
    covered,       \* Permission::covers: its result, <<>> before the call
    config,        \* Sandbox.config
    module,        \* the compiled guest module Sandbox::execute is given
    action,        \* the action name Sandbox::execute is given
    pc,            \* where Sandbox::execute is
    fuel,          \* the store's fuel: <<>> when not metered, else <<left>>
    memory,        \* the guest's linear memory, in pages
    calls,         \* the calls the guest made to the host import "request"
    guest_request, \* the HostRequest of the guest's last call to the import
    guest_status,  \* the i32 that call returned to the guest
    guest_response,\* the HostResponse that call delivered to the guest
    guest_elapsed, \* the time since start_time at that call: <<>> or <<ms>>
    result,        \* what Sandbox::execute returned
    wasm_files,    \* the plugin files on disk: path -> what the file holds
    plugins,       \* PluginHost.plugins: id -> the instance loaded, if any
    host_op,       \* the last operation on the PluginHost and what it returned
    search_paths,  \* PluginHost.search_paths
    invocations,   \* the calls of Sandbox::execute under way at once: each one's store
    turn,          \* the one of them that took the last step, 0 before any
    state,         \* WorkflowRunner.state
    running,       \* WorkflowRunner.running
    events,        \* the events the watcher has yet to deliver
    handling,      \* the actions still to execute for the event being handled
    handled,       \* the action executed last and the event it was executed for
    outcome,       \* what that action returned
    waiting,       \* whether run() is inside watcher.next_event(), blocked in recv
    delivered,     \* how many events the watcher has sent to the channel
    stops,         \* the stop requests so far: the status and the events sent then
    plugin_record, \* a plugin record as the workflow file has it: <<>> or <<record>>
    plugin_load,   \* the PluginLoadConfig deserialized from it: <<>> or <<config>>
    file_bytes     \* the bytes of the file /g/f

sandbox_vars == <<permissions, logs, work_dir, start_time, timeout_ms>>
call_vars    == <<request, response, performed, timed_out>>
covers_vars  == <<granted, requested, covered>>
guest_vars   == <<calls, guest_request, guest_status, guest_response, guest_elapsed>>
exec_vars    == <<config, module, action, pc, fuel, memory, guest_vars, result>>
host_vars    == <<wasm_files, plugins, host_op, search_paths>>
pair_vars    == <<invocations, turn>>
runner_vars  == <<state, running, events, handling, handled, outcome, waiting,
                  delivered, stops>>
input_vars   == <<plugin_record, plugin_load, file_bytes>>
vars == <<fs, now, sandbox_vars, call_vars, covers_vars, exec_vars, host_vars,
          pair_vars, runner_vars, input_vars>>

----------------------------------------------------------------------------
(* Bounds of the model *)

MaxPerms == 2        \* most permissions in a permission set
MaxLogs  == 1        \* most entries of the log buffer
MaxTime  == 2        \* the clock stops advancing here
TimeoutMs == 1       \* the configured timeout_ms of the sandbox under test
MaxFuel  == 2        \* the configured fuel_limit, when there is one
MaxCalls == 2        \* most calls of the host import in one invocation
MemoryLimit == 65536 \* the configured memory_limit of the sandbox under test, in bytes
MaxEvents == 2       \* most events the watcher delivers to the runner
MaxBytes == 4        \* most bytes in the file read

None == "none"

\* Before the first call: no request, no response, no permission compared.
NoRequest    == [type |-> "None"]
NoResponse   == [type |-> "None"]
NoPermission == [type |-> "None"]
NoResult     == [type |-> "None"]
NoModule     == [exports |-> {}, instantiates |-> FALSE, loops |-> FALSE]

----------------------------------------------------------------------------
(* Paths: text, components (std::path), entries of the filesystem *)

RootDir   == <<"/">>          \* Component::RootDir
CurDir    == <<".">>          \* Component::CurDir
ParentDir == <<".", ".">>     \* Component::ParentDir
g  == <<"g">>
gx == <<"g", "x">>
e  == <<"e">>
f  == <<"f">>

\* The path texts of the model.
P_g     == <<"/", "g">>
P_gs    == <<"/", "g", "/">>
P_gf    == <<"/", "g", "/", "f">>
P_gx    == <<"/", "g", "x">>
P_gxf   == <<"/", "g", "x", "/", "f">>
P_e     == <<"/", "e">>
P_ef    == <<"/", "e", "/", "f">>
P_g_ef  == <<"/", "g", "/", ".", ".", "/", "e", "/", "f">>
P_rel_g == <<"g">>
P_rel_gf == <<"g", "/", "f">>

\* The text between the separators, empty pieces included.
RECURSIVE split(_, _, _)
split(text, i, piece) ==
    IF i > Len(text) THEN <<piece>>
    ELSE IF text[i] = "/" THEN <<piece>> \o split(text, i + 1, <<>>)
    ELSE split(text, i + 1, Append(piece, text[i]))

\* Path::components: a leading separator is the root; empty pieces and "."
\* are dropped, except a "." that starts a relative path; ".." is kept.
components(text) ==
    LET pieces  == split(text, 1, <<>>)
        rooted  == Len(text) > 0 /\ text[1] = "/"
        leading == IF rooted THEN <<RootDir>>
                   ELSE IF pieces[1] = CurDir THEN <<CurDir>> ELSE <<>>
        keep(c) == c # <<>> /\ c # CurDir
    IN  leading \o SelectSeq(pieces, keep)

\* The text of a component sequence.
RECURSIVE text_of(_)
text_of(comps) ==
    IF comps = <<>> THEN <<>>
    ELSE IF Len(comps) = 1 THEN comps[1]
    ELSE IF comps[1] = <<"/">> THEN comps[1] \o text_of(Tail(comps))
    ELSE comps[1] \o <<"/">> \o text_of(Tail(comps))

\* A comparison of the texts: str::starts_with.
starts_with_as_text(path, base) ==
    /\ Len(text_of(base)) <= Len(text_of(path))
    /\ SubSeq(text_of(path), 1, Len(text_of(base))) = text_of(base)

\* Path::starts_with: whole components, never a prefix of the text.
starts_with(path, base) ==
    /\ Len(base) <= Len(path)
    /\ SubSeq(path, 1, Len(base)) = base

\* The entries the filesystem may hold, as canonical component sequences.
Root  == <<RootDir>>
Nodes == { <<RootDir, g>>, <<RootDir, gx>>, <<RootDir, e>>,
           <<RootDir, g, f>>, <<RootDir, gx, f>>, <<RootDir, e, f>> }

\* Where a symbolic link at an entry points: /gx -> /g, any other -> /e.
LinkTarget(node) == IF node = <<RootDir, gx>> THEN <<RootDir, g>> ELSE <<RootDir, e>>

\* The process's current directory.
Cwd == Root

Kind(files, node) ==
    IF node = Root THEN "dir"
    ELSE IF node \in Nodes THEN files[node]
    ELSE None

Parent(node) == IF Len(node) <= 1 THEN node ELSE SubSeq(node, 1, Len(node) - 1)

\* The entry a chain of symbolic links ends at.
RECURSIVE RealNode(_, _)
RealNode(files, node) ==
    IF Kind(files, node) = "link" THEN RealNode(files, LinkTarget(node)) ELSE node

Failed == [ok |-> FALSE, node |-> <<>>]

\* The kernel's path walk from directory cur over comps[i..]: every component
\* must exist, ".." steps to the parent of the resolved directory, links are
\* followed.
RECURSIVE walk(_, _, _, _)
walk(files, comps, i, cur) ==
    IF i > Len(comps) THEN [ok |-> TRUE, node |-> cur]
    ELSE IF Kind(files, cur) # "dir" THEN Failed
    ELSE IF comps[i] = ParentDir THEN walk(files, comps, i + 1, Parent(cur))
    ELSE IF comps[i] = CurDir THEN walk(files, comps, i + 1, cur)
    ELSE LET real == RealNode(files, Append(cur, comps[i]))
         IN  IF Kind(files, real) = None THEN Failed
             ELSE walk(files, comps, i + 1, real)

\* The walk of a whole path: from the root, or from the current directory.
resolve(files, comps) ==
    IF Len(comps) > 0 /\ comps[1] = RootDir
    THEN walk(files, comps, 2, Root)
    ELSE walk(files, comps, 1, Cwd)

\* Path::canonicalize: the absolute path with links and ".." resolved; an
\* error when the path does not exist.
canonicalize(files, text) == resolve(files, components(text))

\* The filesystems an invocation may start in: an entry exists only inside
\* a directory; /e is a directory.
WellFormed(files) ==
    /\ files[<<RootDir, e>>] = "dir"
    /\ \A n \in Nodes :
        /\ Len(n) = 2 => files[n] \in {None, "dir", "link"}
        /\ Len(n) = 3 => /\ files[n] \in {None, "file"}
                         /\ files[n] = "file" => files[Parent(n)] = "dir"

FsStates == { files \in [Nodes -> {None, "dir", "file", "link"}] : WellFormed(files) }

\* The filesystems the sandbox under test starts in: /gx is absent.
SandboxFsStates == { files \in FsStates : files[<<RootDir, gx>>] = None }

----------------------------------------------------------------------------
(* permissions.rs: Permission, covers, path_covers, PermissionSet *)

ReadPath(p)      == [type |-> "ReadPath", path |-> p]
WritePath(p)     == [type |-> "WritePath", path |-> p]
Env(n)           == [type |-> "Env", name |-> n]
AllEnv           == [type |-> "AllEnv"]
Network(h, port) == [type |-> "Network", host |-> h, port |-> port]   \* port: <<>> is None, <<p>> is Some(p)
Execute(c)       == [type |-> "Execute", command |-> c]
Time             == [type |-> "Time"]
Random           == [type |-> "Random"]

\* A comparison of the variants alone.
perm_eq_variant_only(a, b) == a.type = b.type

\* The derived PartialEq of Permission: same variant, equal fields; two
\* PathBufs are equal when their components are.
perm_eq(a, b) ==
    /\ a.type = b.type
    /\ IF a.type \in {"ReadPath", "WritePath"}
       THEN components(a.path) = components(b.path)
       ELSE a = b

\* The path as compared: canonical, or as written when it does not resolve.
canonical_or_literal(files, text) ==
    LET c == canonicalize(files, text)
    IN  IF c.ok THEN c.node ELSE components(text)

path_covers(files, granted_path, requested_path) ==
    LET granted_c   == canonical_or_literal(files, granted_path)
        requested_c == canonical_or_literal(files, requested_path)
    IN  requested_c = granted_c \/ starts_with(requested_c, granted_c)

\* covers without its first arm, the exact match.
covers_without_exact_match(files, self, req) ==
    IF self.type = "ReadPath" /\ req.type = "ReadPath"
        THEN path_covers(files, self.path, req.path)
    ELSE IF self.type = "WritePath" /\ req.type = "WritePath"
        THEN path_covers(files, self.path, req.path)
    ELSE IF self.type = "AllEnv" /\ req.type = "Env" THEN TRUE
    ELSE IF self.type = "Network" /\ self.port = <<>> /\ req.type = "Network"
        THEN self.host = req.host
    ELSE FALSE

covers(files, self, req) ==
    IF perm_eq(self, req) THEN TRUE
    ELSE IF self.type = "ReadPath" /\ req.type = "ReadPath"
        THEN path_covers(files, self.path, req.path)
    ELSE IF self.type = "WritePath" /\ req.type = "WritePath"
        THEN path_covers(files, self.path, req.path)
    ELSE IF self.type = "AllEnv" /\ req.type = "Env" THEN TRUE
    ELSE IF self.type = "Network" /\ self.port = <<>> /\ req.type = "Network"
        THEN self.host = req.host
    ELSE FALSE

\* Every permission of the set, rather than any, must cover.
check_every(files, perms, req) == \A p \in perms : covers(files, p, req)

\* PermissionSet::check
check(files, perms, req) == \E p \in perms : covers(files, p, req)

----------------------------------------------------------------------------
(* api.rs: HostRequest, HostResponse *)

ReadFile(p)      == [type |-> "ReadFile", path |-> p]
WriteFile(p)     == [type |-> "WriteFile", path |-> p]
ListDir(p)       == [type |-> "ListDir", path |-> p]
GetEnv(n)        == [type |-> "GetEnv", name |-> n]
Log(level, m)    == [type |-> "Log", level |-> level, message |-> m]
CurrentTime      == [type |-> "CurrentTime"]
GenerateUuid     == [type |-> "GenerateUuid"]

success                  == [type |-> "Success", data |-> None]
success_with_data(d)     == [type |-> "Success", data |-> d]
error(message)           == [type |-> "Error", message |-> message]
permission_denied(perm)  == [type |-> "PermissionDenied", permission |-> perm]

----------------------------------------------------------------------------
(* The host operations handle_request calls: std::fs, std::env, the clock *)

\* The variables set in the environment of the process.
ProcessEnv == {"HOME"}

Op(name, arg) == [op |-> name, arg |-> arg]

\* std::fs::read: the path must resolve to a regular file.
fs_read(files, text) ==
    LET r == canonicalize(files, text)
    IN  r.ok /\ Kind(files, r.node) = "file"

\* std::fs::read_dir: the path must resolve to a directory.
fs_read_dir(files, text) ==
    LET r == canonicalize(files, text)
    IN  r.ok /\ Kind(files, r.node) = "dir"

\* std::fs::write: the parent must resolve to a directory; the last
\* component, through any link, is truncated when a file and created when
\* absent.  The entry written, or a failure.
fs_write_target(files, text) ==
    LET comps == components(text)
        n     == Len(comps)
    IN  IF n = 0 \/ comps[n] \in {RootDir, CurDir, ParentDir} THEN Failed
        ELSE LET parent == resolve(files, SubSeq(comps, 1, n - 1))
             IN  IF ~parent.ok \/ Kind(files, parent.node) # "dir" THEN Failed
                 ELSE LET target == RealNode(files, Append(parent.node, comps[n]))
                      IN  IF Kind(files, target) = "dir" \/ target \notin Nodes
                          THEN Failed
                          ELSE [ok |-> TRUE, node |-> target]

fs_write(files, text) ==
    LET t == fs_write_target(files, text)
    IN  IF t.ok THEN [files EXCEPT ![t.node] = "file"] ELSE files

----------------------------------------------------------------------------
(* sandbox.rs: SandboxState *)

\* The timeout taken as seconds.
check_timeout_in_seconds(elapsed, timeout) == ~(elapsed > timeout * 1000)

\* check_timeout(..).is_ok()
check_timeout(elapsed, timeout) == ~(elapsed > timeout)

\* No check at all.
check_permission_skipped(files, perms, perm) == TRUE

\* check_permission(..).is_ok()
check_permission(files, perms, perm) == check(files, perms, perm)

\* What one call of handle_request leaves behind: its response, the log
\* buffer, the filesystem, and the host operations it performed.
Outcome(resp, buf, files, ops) ==
    [response |-> resp, logs |-> buf, fs |-> files, performed |-> ops]

handle_read_file(files, perms, buf, req) ==
    IF ~check_permission(files, perms, ReadPath(req.path))
    THEN Outcome(permission_denied(<<"read", req.path>>), buf, files, <<>>)
    ELSE Outcome(IF fs_read(files, req.path)
                 THEN success_with_data("content")
                 ELSE error("Failed to read file"),
                 buf, files, <<Op("fs::read", req.path)>>)

handle_write_file(files, perms, buf, req) ==
    IF ~check_permission(files, perms, WritePath(req.path))
    THEN Outcome(permission_denied(<<"write", req.path>>), buf, files, <<>>)
    ELSE Outcome(IF fs_write_target(files, req.path).ok
                 THEN success_with_data("bytes_written")
                 ELSE error("Failed to write file"),
                 buf, fs_write(files, req.path), <<Op("fs::write", req.path)>>)

handle_list_dir(files, perms, buf, req) ==
    IF ~check_permission(files, perms, ReadPath(req.path))
    THEN Outcome(permission_denied(<<"read", req.path>>), buf, files, <<>>)
    ELSE Outcome(IF fs_read_dir(files, req.path)
                 THEN success_with_data("entries")
                 ELSE error("Failed to list directory"),
                 buf, files, <<Op("fs::read_dir", req.path)>>)

handle_get_env(files, perms, buf, req) ==
    IF ~check_permission(files, perms, Env(req.name))
    THEN Outcome(permission_denied(<<"env", req.name>>), buf, files, <<>>)
    ELSE Outcome(success_with_data(IF req.name \in ProcessEnv THEN "value" ELSE "null"),
                 buf, files, <<Op("env::var", req.name)>>)

\* A Log request that is traced and not kept.
handle_log_unbuffered(files, perms, buf, req) == Outcome(success, buf, files, <<>>)

handle_log(files, perms, buf, req) ==
    Outcome(success, Append(buf, <<req.level, req.message>>), files, <<>>)

handle_current_time(files, perms, buf, req) ==
    IF ~check_permission(files, perms, Time)
    THEN Outcome(permission_denied("time"), buf, files, <<>>)
    ELSE Outcome(success_with_data("timestamp"), buf, files, <<Op("Utc::now", None)>>)

\* A denial that leaves a trace in the state.
handle_generate_uuid_noting_denial(files, perms, buf, req) ==
    IF ~check_permission(files, perms, Random)
    THEN Outcome(permission_denied("random"), Append(buf, <<"Warn", "denied">>), files, <<>>)
    ELSE Outcome(success_with_data("uuid"), buf, files, <<Op("Uuid::new_v4", None)>>)

handle_generate_uuid(files, perms, buf, req) ==
    IF ~check_permission(files, perms, Random)
    THEN Outcome(permission_denied("random"), buf, files, <<>>)
    ELSE Outcome(success_with_data("uuid"), buf, files, <<Op("Uuid::new_v4", None)>>)

handle_request(files, perms, buf, elapsed, timeout, req) ==
    IF ~check_timeout(elapsed, timeout)
    THEN Outcome(error("Timeout"), buf, files, <<>>)
    ELSE CASE req.type = "ReadFile"     -> handle_read_file(files, perms, buf, req)
           [] req.type = "WriteFile"    -> handle_write_file(files, perms, buf, req)
           [] req.type = "ListDir"      -> handle_list_dir(files, perms, buf, req)
           [] req.type = "GetEnv"       -> handle_get_env(files, perms, buf, req)
           [] req.type = "Log"          -> handle_log(files, perms, buf, req)
           [] req.type = "CurrentTime"  -> handle_current_time(files, perms, buf, req)
           [] req.type = "GenerateUuid" -> handle_generate_uuid(files, perms, buf, req)

----------------------------------------------------------------------------
(* The inputs: permission sets, requests *)

GrantablePerms ==
    { ReadPath(P_g), WritePath(P_g), Env("HOME"), AllEnv, Time, Random }

PermSets == { S \in SUBSET GrantablePerms : Cardinality(S) <= MaxPerms }

RequestPaths == { P_g, P_gf, P_ef, P_g_ef }

Requests ==
    { ReadFile(p) : p \in RequestPaths } \cup { WriteFile(p) : p \in RequestPaths }
    \cup { ListDir(p) : p \in RequestPaths }
    \cup { GetEnv(n) : n \in {"HOME", "PATH"} }
    \cup { Log("Info", "m") }
    \cup { CurrentTime, GenerateUuid }

----------------------------------------------------------------------------
(* One sandbox state and the requests handled on it *)

DEFAULT_MEMORY_LIMIT == 67108864
DEFAULT_TIMEOUT_MS == 30000
DEFAULT_FUEL_LIMIT == 100000000

\* The sandbox configurations with these permission sets and fuel limits.
SandboxConfigs(perm_sets, fuel_limits) ==
    { [memory_limit |-> MemoryLimit, timeout_ms |-> TimeoutMs,
       fuel_limit |-> fl, permissions |-> perms, work_dir |-> None] :
        fl \in fuel_limits, perms \in perm_sets }

\* A state whose clock started when the sandbox was made, not at the call.
SandboxState_new_at_epoch(cfg, t) ==
    [permissions |-> cfg.permissions, logs |-> <<>>, work_dir |-> cfg.work_dir,
     start_time |-> 0, timeout_ms |-> cfg.timeout_ms]

\* SandboxState::new(config) at time t
SandboxState_new(cfg, t) ==
    [permissions |-> cfg.permissions, logs |-> <<>>, work_dir |-> cfg.work_dir,
     start_time |-> t, timeout_ms |-> cfg.timeout_ms]

\* The SandboxState is st / there is none.
SandboxStateIs(st) ==
    /\ permissions = st.permissions
    /\ logs = st.logs
    /\ work_dir = st.work_dir
    /\ start_time = st.start_time
    /\ timeout_ms = st.timeout_ms

NoSandboxState ==
    SandboxStateIs([permissions |-> {}, logs |-> <<>>, work_dir |-> None,
                    start_time |-> 0, timeout_ms |-> 0])

\* SandboxConfig::default()
DefaultSandboxConfig ==
    [memory_limit |-> DEFAULT_MEMORY_LIMIT, timeout_ms |-> DEFAULT_TIMEOUT_MS,
     fuel_limit |-> <<DEFAULT_FUEL_LIMIT>>, permissions |-> {Time, Random},
     work_dir |-> None]

\* The plugin files: /p/a.wasm and /p/b.wasm, in the search path /p.
P_plugins == <<"/", "p">>
P_a == <<"/", "p", "/", "a", ".", "w", "a", "s", "m">>
P_b == <<"/", "p", "/", "b", ".", "w", "a", "s", "m">>
PluginPaths == { P_a, P_b }

\* Other paths: a file of /p that is no plugin, a path without a file name,
\* a search path that exists but is no directory, and one that is missing.
P_c    == <<"/", "p", "/", "c", ".", "t", "x", "t">>
P_root == <<"/">>
P_q    == <<"/", "q">>
P_m    == <<"/", "m">>

\* The plugin ids these files and configurations give.
I_a == <<"a">>
I_b == <<"b">>
I_unknown == <<"u", "n", "k", "n", "o", "w", "n">>
I_c == <<"c">>
PluginIds == { I_a, I_b }

\* What a plugin file holds: nothing (there is no such file), bytes that do
\* not compile, or the bytes of a module.
Absent    == [kind |-> "absent"]
Garbage   == [kind |-> "garbage"]
Wasm(mod) == [kind |-> "wasm", module |-> mod]

\* No instance under an id; no operation yet.
NoInstance == [loaded |-> FALSE]
NoOp       == [op |-> "none", id |-> <<>>, result |-> NoResult]

NoHost ==
    /\ wasm_files = [p \in PluginPaths |-> Absent]
    /\ plugins = [i \in PluginIds |-> NoInstance]
    /\ host_op = NoOp
    /\ search_paths = <<>>

\* No calls of execute under way at once.
NoPair == invocations = <<>> /\ turn = 0

\* WorkflowState::new
WorkflowState_new ==
    [status |-> "Idle", events_processed |-> 0, actions_executed |-> 0, error_count |-> 0]

\* A runner that has not run: WorkflowRunner::new, without events or rules.
NoRunner ==
    /\ state = WorkflowState_new /\ running = FALSE
    /\ events = <<>> /\ handling = <<>> /\ handled = <<>> /\ outcome = NoResult
    /\ waiting = FALSE /\ delivered = 0 /\ stops = {}

\* No plugin record read, and an empty file.
NoInput == plugin_record = <<>> /\ plugin_load = <<>> /\ file_bytes = <<>>

\* No call of handle_request, no comparison of permissions, no invocation.
NoCall   == request = NoRequest /\ response = NoResponse /\ performed = <<>> /\ timed_out = FALSE
NoCovers == granted = NoPermission /\ requested = NoPermission /\ covered = <<>>
NoGuest  == /\ calls = 0 /\ guest_request = NoRequest /\ guest_status = <<>>
            /\ guest_response = NoResponse /\ guest_elapsed = <<>>
NoExec   == /\ module = NoModule /\ action = <<>> /\ pc = "idle" /\ fuel = <<>> /\ memory = 0
            /\ NoGuest /\ result = NoResult

Init ==
    /\ fs \in SandboxFsStates
    /\ now = 0
    /\ config \in SandboxConfigs(PermSets, {<<MaxFuel>>})
    /\ SandboxStateIs(SandboxState_new(config, now))
    /\ NoCall /\ NoCovers /\ NoExec /\ NoHost /\ NoPair /\ NoRunner /\ NoInput

\* Time passes.
Tick ==
    /\ now < MaxTime
    /\ now' = now + 1
    /\ UNCHANGED <<fs, sandbox_vars, call_vars, covers_vars, exec_vars, host_vars, pair_vars,
                   runner_vars, input_vars>>

\* SandboxState::handle_request(req)
HandleRequest ==
    \E req \in Requests :
        \E out \in { handle_request(fs, permissions, logs, now - start_time, timeout_ms, req) } :
            /\ Len(out.logs) <= MaxLogs
            /\ request' = req
            /\ response' = out.response
            /\ performed' = out.performed
            /\ logs' = out.logs
            /\ fs' = out.fs
            /\ timed_out' = (timed_out \/ ~check_timeout(now - start_time, timeout_ms))
            /\ UNCHANGED <<now, permissions, work_dir, start_time, timeout_ms, covers_vars,
                           exec_vars, host_vars, pair_vars, runner_vars, input_vars>>

Next == Tick \/ HandleRequest

Spec == Init /\ [][Next]_vars

\* The same requests on one filesystem: /g a directory, /g/f and /e/f files.
InitSession ==
    /\ Init
    /\ fs[<<RootDir, g>>] = "dir"
    /\ fs[<<RootDir, g, f>>] = "file"
    /\ fs[<<RootDir, e, f>>] = "file"

SpecSession == InitSession /\ [][Next]_vars

----------------------------------------------------------------------------
(* Permission::covers on its own: the inputs are drawn, then it is applied *)

ComparedPaths ==
    { P_g, P_gs, P_gf, P_gx, P_gxf, P_e, P_ef, P_g_ef, P_rel_g, P_rel_gf }

PathPerms ==
    { ReadPath(p) : p \in ComparedPaths } \cup { WritePath(p) : p \in ComparedPaths }

AllPerms ==
    PathPerms \cup
    { Env("HOME"), Env("PATH"), AllEnv,
      Network("h", <<>>), Network("h", <<80>>), Network("k", <<80>>),
      Execute("c"), Time, Random }

InitCovers ==
    /\ fs \in FsStates
    /\ now = 0
    /\ config \in SandboxConfigs({{}}, {<<MaxFuel>>})
    /\ NoSandboxState
    /\ NoCall /\ NoExec /\ NoHost /\ NoPair /\ NoRunner /\ NoInput
    /\ granted \in AllPerms /\ requested \in AllPerms /\ covered = <<>>

\* granted.covers(&requested)
Covers ==
    /\ covered = <<>>
    /\ covered' = << covers(fs, granted, requested) >>
    /\ UNCHANGED <<fs, now, sandbox_vars, call_vars, granted, requested, exec_vars, host_vars,
                   pair_vars, runner_vars, input_vars>>

NextCovers == Covers

SpecCovers == InitCovers /\ [][NextCovers]_vars

----------------------------------------------------------------------------
(* sandbox.rs: Sandbox::execute, one invocation of a guest module *)

\* Names of exports and actions, as text.
N_run      == <<"r", "u", "n">>
N_internal == <<"_", "i", "n", "i", "t">>
N_memory   == <<"m", "e", "m">>
N_absent   == <<"n", "o">>

\* What the guest modules export: two functions and their linear memory.
GuestExports ==
    { [name |-> N_run, func |-> TRUE], [name |-> N_internal, func |-> TRUE],
      [name |-> N_memory, func |-> FALSE] }

\* The guest modules: what they export, whether they instantiate against
\* the linker (a module that imports what the host lacks does not), whether
\* their functions run for ever unless stopped, and the size in pages
\* their linear memory starts with and may grow to.
Modules ==
    { [exports |-> GuestExports, instantiates |-> i, loops |-> l,
       pages_min |-> 1, pages_max |-> 3] :
        i \in BOOLEAN, l \in BOOLEAN }

ActionNames == { N_run, N_internal, N_memory, N_absent }

Ok(buf)    == [type |-> "Ok", success |-> TRUE, output |-> None, logs |-> buf]
Err(kind)  == [type |-> "Err", error |-> kind]

\* The fuel a new store is given: none is metered without a fuel_limit.
initial_fuel_unset(cfg) == <<>>
initial_fuel(cfg) == cfg.fuel_limit

\* store.get_fuel().unwrap_or(0): an error, hence 0, when fuel is not metered.
get_fuel(left) == IF left = <<>> THEN 0 ELSE left[1]

\* The guest may execute an instruction: it is not metered, or fuel is left.
has_fuel(left) == IF left = <<>> THEN TRUE ELSE left[1] > 0

\* The fuel after the guest has run on: one unit less, or, from a budget
\* above MaxFuel, what it takes to come down to MaxFuel.
burn(left) ==
    IF left = <<>> THEN left
    ELSE IF left[1] > MaxFuel THEN <<MaxFuel>>
    ELSE <<left[1] - 1>>

\* The size in bytes of a linear memory of that many pages (of 64 KiB).
memory_bytes(pages) == pages * 65536

InitExec ==
    /\ fs \in { files \in SandboxFsStates :
                    /\ files[<<RootDir, g>>] = "dir"
                    /\ files[<<RootDir, g, f>>] = "file"
                    /\ files[<<RootDir, e, f>>] = "file" }
    /\ now = 0
    /\ config \in SandboxConfigs({{Time, Random}, {ReadPath(P_g)}}, {<<>>, <<MaxFuel>>})
    /\ NoSandboxState
    /\ NoCall /\ NoCovers /\ NoGuest /\ NoHost /\ NoPair /\ NoRunner /\ NoInput
    /\ module \in Modules /\ action = <<>> /\ pc = "idle" /\ fuel = <<>> /\ memory = 0
    /\ result = NoResult

\* execute, lines 329-351, on this configuration and module: the fresh
\* state, the store and its fuel, the linker.
execute_begins(cfg, mod, name) ==
    /\ config' = cfg /\ module' = mod /\ action' = name
    /\ LET st == SandboxState_new(cfg, now)
       IN  /\ permissions' = st.permissions
           /\ logs' = st.logs
           /\ work_dir' = st.work_dir
           /\ start_time' = st.start_time
           /\ timeout_ms' = st.timeout_ms
    /\ fuel' = initial_fuel(cfg)
    /\ memory' = 0
    /\ calls' = 0 /\ guest_request' = NoRequest /\ guest_status' = <<>>
    /\ guest_response' = NoResponse /\ guest_elapsed' = <<>>
    /\ result' = NoResult
    /\ pc' = "instantiate"

\* sandbox.execute(&module, action, ctx)
SandboxExecute ==
    /\ pc \in {"idle", "done"}
    /\ \E name \in ActionNames : execute_begins(config, module, name)
    /\ UNCHANGED <<fs, now, call_vars, covers_vars, host_vars, pair_vars, runner_vars, input_vars>>

\* An instantiation whose failure is passed over.
Instantiate_unchecked ==
    /\ pc = "instantiate"
    /\ pc' = "get_func" /\ result' = result /\ memory' = module.pages_min
    /\ UNCHANGED <<fs, now, sandbox_vars, call_vars, covers_vars, config, module, action,
                   fuel, guest_vars, host_vars, pair_vars, runner_vars, input_vars>>

\* linker.instantiate(&mut store, module)?
Instantiate ==
    /\ pc = "instantiate"
    /\ IF module.instantiates
       THEN pc' = "get_func" /\ result' = result /\ memory' = module.pages_min
       ELSE pc' = "done" /\ result' = Err("Wasm") /\ memory' = memory
    /\ UNCHANGED <<fs, now, sandbox_vars, call_vars, covers_vars, config, module, action,
                   fuel, guest_vars, host_vars, pair_vars, runner_vars, input_vars>>

\* instance.get_func(&mut store, action).ok_or_else(..)?
GetFunc ==
    /\ pc = "get_func"
    /\ IF \E x \in module.exports : x.name = action /\ x.func
       THEN pc' = "running" /\ result' = result
       ELSE pc' = "done" /\ result' = Err("ExecutionFailed")
    /\ UNCHANGED <<fs, now, sandbox_vars, call_vars, covers_vars, config, module, action,
                   fuel, memory, guest_vars, host_vars, pair_vars, runner_vars, input_vars>>

\* The guest runs: metered, it burns fuel and traps when none is left.
GuestStep ==
    /\ pc = "running"
    /\ fuel # <<>>
    /\ IF fuel[1] = 0
       THEN pc' = "trapped" /\ fuel' = fuel
       ELSE pc' = pc /\ fuel' = burn(fuel)
    /\ UNCHANGED <<fs, now, sandbox_vars, call_vars, covers_vars, config, module, action,
                   memory, guest_vars, result, host_vars, pair_vars, runner_vars, input_vars>>

\* The guest calls the host import "request" with one of these requests,
\* serialised: the closure registered by func_wrap returns 0.
GuestHostCallOf(reqs) ==
    /\ pc = "running"
    /\ has_fuel(fuel)
    /\ calls < MaxCalls
    /\ \E req \in reqs : guest_request' = req
    /\ calls' = calls + 1
    /\ guest_status' = <<0>>
    /\ guest_response' = NoResponse
    /\ guest_elapsed' = <<now - start_time>>
    /\ fuel' = burn(fuel)
    /\ UNCHANGED <<fs, now, sandbox_vars, call_vars, covers_vars, config, module, action, pc,
                   memory, result, host_vars, pair_vars, runner_vars, input_vars>>

GuestHostCall == GuestHostCallOf(Requests)

\* The guest grows its linear memory by a page (memory.grow): the runtime
\* grants it up to the maximum the module declares.
GuestGrow ==
    /\ pc = "running"
    /\ has_fuel(fuel)
    /\ memory < module.pages_max
    /\ memory' = memory + 1
    /\ fuel' = burn(fuel)
    /\ UNCHANGED <<fs, now, sandbox_vars, call_vars, covers_vars, config, module, action, pc,
                   guest_vars, result, host_vars, pair_vars, runner_vars, input_vars>>

\* The guest traps of its own (unreachable, a bad memory access ...).
GuestTrap ==
    /\ pc = "running"
    /\ ~module.loops
    /\ pc' = "trapped"
    /\ UNCHANGED <<fs, now, sandbox_vars, call_vars, covers_vars, config, module, action,
                   fuel, memory, guest_vars, result, host_vars, pair_vars, runner_vars, input_vars>>

\* The entry point returns.
GuestReturn ==
    /\ pc = "running"
    /\ ~module.loops
    /\ pc' = "returned"
    /\ UNCHANGED <<fs, now, sandbox_vars, call_vars, covers_vars, config, module, action,
                   fuel, memory, guest_vars, result, host_vars, pair_vars, runner_vars, input_vars>>

\* func.call(..) is Ok: the result is built from the state's logs.
FinishOk ==
    /\ pc = "returned"
    /\ result' = Ok(logs)
    /\ pc' = "done"
    /\ UNCHANGED <<fs, now, sandbox_vars, call_vars, covers_vars, config, module, action,
                   fuel, memory, guest_vars, host_vars, pair_vars, runner_vars, input_vars>>

\* func.call(..) is Err: fuel exhaustion, or any other trap.
FinishErr ==
    /\ pc = "trapped"
    /\ result' = IF get_fuel(fuel) = 0
                 THEN Err("ResourceLimitExceeded")
                 ELSE Err("ExecutionFailed")
    /\ pc' = "done"
    /\ UNCHANGED <<fs, now, sandbox_vars, call_vars, covers_vars, config, module, action,
                   fuel, memory, guest_vars, host_vars, pair_vars, runner_vars, input_vars>>

\* The steps of an invocation once it has begun, but for the guest's calls
\* of the host import and its growing of memory.
Invocation ==
    \/ Instantiate \/ GetFunc
    \/ GuestStep \/ GuestTrap \/ GuestReturn
    \/ FinishOk \/ FinishErr

NextExec ==
    \/ Tick
    \/ SandboxExecute
    \/ GuestHostCall \/ GuestGrow
    \/ Invocation

SpecExec == InitExec /\ [][NextExec]_vars

\* The same, where the runtime keeps executing the guest and execute runs
\* on to its return.
SpecExecFair ==
    /\ SpecExec
    /\ WF_vars(Instantiate) /\ WF_vars(GetFunc) /\ WF_vars(GuestStep)
    /\ WF_vars(FinishOk) /\ WF_vars(FinishErr)

----------------------------------------------------------------------------
(* sandbox.rs: calls of Sandbox::execute on one sandbox and module at once *)

\* The callers of execute(&self, ..): threads that share the sandbox and the
\* module.
Callers == {1, 2}

\* What one call of execute owns: where it is, its SandboxState, the fuel and
\* the host calls of its store, and what it returned.
NoInvocation ==
    [pc |-> "idle", action |-> <<>>, logs |-> <<>>, start_time |-> 0, timeout_ms |-> 0,
     fuel |-> <<>>, calls |-> 0, result |-> NoResult]

\* One state and store for all the calls.
state_of_sandbox(caller) == 1

\* The state and store of a call: the ones it made at lines 329-332.
state_of_call(caller) == caller

\* execute, lines 329-351, for one call at time t.
invocation_begun(cfg, name, t) ==
    LET st == SandboxState_new(cfg, t)
    IN  [pc |-> "instantiate", action |-> name, logs |-> st.logs,
         start_time |-> st.start_time, timeout_ms |-> st.timeout_ms,
         fuel |-> initial_fuel(cfg), calls |-> 0, result |-> NoResult]

\* The steps of one call from where it is: the ones of Instantiate, GetFunc,
\* GuestStep, GuestHostCall (a Log request), GuestTrap, GuestReturn, FinishOk
\* and FinishErr, on the call's own state.
invocation_steps(inv, mod) ==
    CASE inv.pc = "instantiate" ->
            { IF mod.instantiates
              THEN [inv EXCEPT !.pc = "get_func"]
              ELSE [inv EXCEPT !.pc = "done", !.result = Err("Wasm")] }
      [] inv.pc = "get_func" ->
            { IF \E x \in mod.exports : x.name = inv.action /\ x.func
              THEN [inv EXCEPT !.pc = "running"]
              ELSE [inv EXCEPT !.pc = "done", !.result = Err("ExecutionFailed")] }
      [] inv.pc = "running" ->
            { [inv EXCEPT !.pc = "trapped"] : x \in { y \in {0} : ~has_fuel(inv.fuel) } }
            \cup { [inv EXCEPT !.fuel = burn(inv.fuel)] :
                        x \in { y \in {0} : inv.fuel # <<>> /\ has_fuel(inv.fuel) } }
            \cup { [inv EXCEPT !.fuel = burn(inv.fuel), !.calls = inv.calls + 1] :
                        x \in { y \in {0} : has_fuel(inv.fuel) /\ inv.calls < MaxCalls } }
            \cup { [inv EXCEPT !.pc = next] :
                        next \in { y \in {"trapped", "returned"} : ~mod.loops } }
      [] inv.pc = "returned" ->
            { [inv EXCEPT !.pc = "done", !.result = Ok(inv.logs)] }
      [] inv.pc = "trapped" ->
            { [inv EXCEPT !.pc = "done",
                          !.result = IF get_fuel(inv.fuel) = 0
                                     THEN Err("ResourceLimitExceeded")
                                     ELSE Err("ExecutionFailed")] }
      [] OTHER -> {}

InitPair ==
    /\ fs \in { files \in SandboxFsStates :
                    /\ files[<<RootDir, g>>] = "dir"
                    /\ files[<<RootDir, g, f>>] = "file"
                    /\ files[<<RootDir, e, f>>] = "file" }
    /\ now = 0
    /\ config \in SandboxConfigs({{Time, Random}}, {<<>>, <<MaxFuel>>})
    /\ NoSandboxState
    /\ NoCall /\ NoCovers /\ NoGuest /\ NoHost /\ NoRunner /\ NoInput
    /\ module \in Modules /\ action = <<>> /\ pc = "idle" /\ fuel = <<>> /\ memory = 0
    /\ result = NoResult
    /\ invocations = [c \in Callers |-> NoInvocation]
    /\ turn = 0

\* A caller calls sandbox.execute(&module, action, ctx).
PairExecute(caller) ==
    /\ invocations[state_of_call(caller)].pc \in {"idle", "done"}
    /\ \E name \in {N_run, N_absent} :
            invocations' = [invocations EXCEPT ![state_of_call(caller)] =
                                invocation_begun(config, name, now)]
    /\ turn' = caller
    /\ UNCHANGED <<fs, now, sandbox_vars, call_vars, covers_vars, exec_vars, host_vars,
                   runner_vars, input_vars>>

\* The call of a caller goes on by a step.
PairStep(caller) ==
    /\ \E next \in invocation_steps(invocations[state_of_call(caller)], module) :
            invocations' = [invocations EXCEPT ![state_of_call(caller)] = next]
    /\ turn' = caller
    /\ UNCHANGED <<fs, now, sandbox_vars, call_vars, covers_vars, exec_vars, host_vars,
                   runner_vars, input_vars>>

NextPair ==
    \/ Tick
    \/ \E caller \in Callers : PairExecute(caller)
    \/ \E caller \in Callers : PairStep(caller)

SpecPair == InitPair /\ [][NextPair]_vars

----------------------------------------------------------------------------
(* host.rs: PluginConfig, PluginInstance, PluginHost *)

\* The place of the last "." in a file name, 0 when it has none.
last_dot(name) ==
    LET dots == { i \in 1..Len(name) : name[i] = "." }
    IN  IF dots = {} THEN 0 ELSE CHOOSE i \in dots : \A j \in dots : j <= i

\* Path::file_name: the last component when it is a normal one; an Option,
\* <<>> for None.
file_name(text) ==
    LET c == components(text)
    IN  IF c = <<>> THEN <<>>
        ELSE IF c[Len(c)] \in {RootDir, CurDir, ParentDir} THEN <<>>
        ELSE << c[Len(c)] >>

\* Path::file_stem: the file name before its last ".", the whole name when
\* it has none or only a leading one.
file_stem(text) ==
    LET n == file_name(text)
    IN  IF n = <<>> THEN <<>>
        ELSE IF last_dot(n[1]) <= 1 THEN n
        ELSE << SubSeq(n[1], 1, last_dot(n[1]) - 1) >>

\* Path::extension: the file name after its last ".", if any.
extension(text) ==
    LET n == file_name(text)
    IN  IF n = <<>> THEN <<>>
        ELSE IF last_dot(n[1]) <= 1 THEN <<>>
        ELSE << SubSeq(n[1], last_dot(n[1]) + 1, Len(n[1])) >>

PluginConfig(path, id, enabled, sandbox) ==
    [path |-> path, id |-> id, enabled |-> enabled, sandbox |-> sandbox]

\* PluginConfig::new(path)
PluginConfig_new(path) == PluginConfig(path, file_stem(path), TRUE, DefaultSandboxConfig)

\* An id taken from the file name, whatever the configuration says.
get_id_from_stem(cfg) ==
    IF file_stem(cfg.path) # <<>> THEN file_stem(cfg.path)[1] ELSE I_unknown

\* PluginConfig::get_id
get_id(cfg) ==
    IF cfg.id # <<>> THEN cfg.id[1]
    ELSE IF file_stem(cfg.path) # <<>> THEN file_stem(cfg.path)[1]
    ELSE I_unknown

\* A PluginInstance: id is metadata.id, what PluginInstance::id returns.
PluginInstance(id, cfg, mod, acts) ==
    [loaded |-> TRUE, id |-> id, config |-> cfg, module |-> mod, actions |-> acts]

\* What the operations of the host return.
OkId(id)   == [type |-> "Ok", id |-> id]
OkIds(ids) == [type |-> "Ok", ids |-> ids]
OkUnit     == [type |-> "Ok"]

\* sandbox.load_module_from_file(path): the file is read, then compiled.
load_module_from_file(files, path) ==
    LET held == IF path \in DOMAIN files THEN files[path] ELSE Absent
    IN  IF held.kind = "absent" THEN [ok |-> FALSE, error |-> "Io"]
        ELSE IF held.kind = "garbage" THEN [ok |-> FALSE, error |-> "LoadFailed"]
        ELSE [ok |-> TRUE, module |-> held.module]

\* A filter that lets every exported function through.
is_internal_never(name) == FALSE

\* name.starts_with('_')
is_internal(name) == Len(name) > 0 /\ name[1] = "_"

\* The actions of a module: its exported functions, but for those whose
\* name starts with "_".
exported_actions(mod) ==
    { x.name : x \in { y \in mod.exports : y.func /\ ~is_internal(y.name) } }

\* A load that keeps the instance an id already has.
load_plugin_keeping_first(reg, files, cfg) ==
    IF ~cfg.enabled THEN [plugins |-> reg, result |-> Err("LoadFailed")]
    ELSE LET read == load_module_from_file(files, cfg.path)
         IN  IF ~read.ok THEN [plugins |-> reg, result |-> Err(read.error)]
             ELSE IF reg[get_id(cfg)].loaded
                  THEN [plugins |-> reg, result |-> OkId(get_id(cfg))]
             ELSE [plugins |-> [reg EXCEPT ![get_id(cfg)] =
                                    PluginInstance(get_id(cfg), cfg, read.module,
                                                   exported_actions(read.module))],
                   result  |-> OkId(get_id(cfg))]

\* A load that registers the instance before the module is read.
load_plugin_registers_first(reg, files, cfg) ==
    [plugins |-> [reg EXCEPT ![get_id(cfg)] = PluginInstance(get_id(cfg), cfg, NoModule, {})],
     result  |-> IF cfg.enabled /\ load_module_from_file(files, cfg.path).ok
                 THEN OkId(get_id(cfg)) ELSE Err("LoadFailed")]

\* PluginHost::load_plugin: the registry after it, and what it returns.
load_plugin(reg, files, cfg) ==
    IF ~cfg.enabled THEN [plugins |-> reg, result |-> Err("LoadFailed")]
    ELSE LET read == load_module_from_file(files, cfg.path)
         IN  IF ~read.ok THEN [plugins |-> reg, result |-> Err(read.error)]
             ELSE [plugins |-> [reg EXCEPT ![get_id(cfg)] =
                                    PluginInstance(get_id(cfg), cfg, read.module,
                                                   exported_actions(read.module))],
                   result  |-> OkId(get_id(cfg))]

\* PluginHost::load_plugin_from_path
load_plugin_from_path(reg, files, path) == load_plugin(reg, files, PluginConfig_new(path))

\* An unload that drops every instance.
unload_plugin_all(reg, id) ==
    IF reg[id].loaded
    THEN [plugins |-> [i \in DOMAIN reg |-> NoInstance], result |-> OkUnit]
    ELSE [plugins |-> reg, result |-> Err("NotFound")]

\* PluginHost::unload_plugin
unload_plugin(reg, id) ==
    IF reg[id].loaded
    THEN [plugins |-> [reg EXCEPT ![id] = NoInstance], result |-> OkUnit]
    ELSE [plugins |-> reg, result |-> Err("NotFound")]

\* PluginHost::reload_plugin: the configuration is taken, the plugin is
\* unloaded, then loaded again.
reload_plugin(reg, files, id) ==
    IF ~reg[id].loaded THEN [plugins |-> reg, result |-> Err("NotFound")]
    ELSE LET unloaded == unload_plugin(reg, id)
             again    == load_plugin(unloaded.plugins, files, reg[id].config)
         IN  IF again.result.type = "Err" THEN again
             ELSE [plugins |-> again.plugins, result |-> OkUnit]

\* PluginInstance::has_action
has_action_always(inst, name) == TRUE
has_action(inst, name) == name \in inst.actions

\* PluginHost::find_plugins_with_action
find_plugins_with_action(reg, name) ==
    { id \in DOMAIN reg : reg[id].loaded /\ has_action(reg[id], name) }

\* The orders in which read_dir may yield the entries of a directory.
Orderings(S) ==
    { o \in [1..Cardinality(S) -> S] : \A i, j \in 1..Cardinality(S) : o[i] = o[j] => i = j }

\* The loop of discover_plugins over the entries of one search path: each
\* ".wasm" entry is loaded with the default configuration, a failure is
\* logged and passed over.
RECURSIVE discover_entries(_, _, _, _)
discover_entries(reg, files, entries, loaded) ==
    IF entries = <<>> THEN [plugins |-> reg, result |-> OkIds(loaded)]
    ELSE IF extension(Head(entries)) # << <<"w", "a", "s", "m">> >>
         THEN discover_entries(reg, files, Tail(entries), loaded)
    ELSE LET out == load_plugin_from_path(reg, files, Head(entries))
         IN  discover_entries(out.plugins, files, Tail(entries),
                              IF out.result.type = "Ok"
                              THEN Append(loaded, out.result.id) ELSE loaded)

\* Path::exists and read_dir(..).is_ok() of a search path: /p is a directory,
\* /q exists and is none, nothing else exists.
exists(path)  == path \in { P_plugins, P_q }
is_dir(path)  == path = P_plugins

\* The entries of a directory: the files that exist right under it.
dir_entries(files, dir) ==
    { path \in DOMAIN files :
        /\ files[path] # Absent
        /\ Len(path) > Len(dir) + 1
        /\ SubSeq(path, 1, Len(dir) + 1) = dir \o <<"/">>
        /\ \A i \in (Len(dir) + 2)..Len(path) : path[i] # "/" }

\* PluginHost::discover_plugins over these search paths, read_dir yielding
\* the entries of a directory in the given order: a missing search path is
\* passed over, one that cannot be listed ends the scan with its error.
RECURSIVE discover_from(_, _, _, _, _)
discover_from(reg, files, paths, order, loaded) ==
    IF paths = <<>> THEN [plugins |-> reg, result |-> OkIds(loaded)]
    ELSE IF ~exists(Head(paths))
         THEN discover_from(reg, files, Tail(paths), order, loaded)
    ELSE IF ~is_dir(Head(paths)) THEN [plugins |-> reg, result |-> Err("Io")]
    ELSE LET entries == SelectSeq(order, LAMBDA path : path \in dir_entries(files, Head(paths)))
             out     == discover_entries(reg, files, entries, loaded)
         IN  discover_from(out.plugins, files, Tail(paths), order, out.result.ids)

discover_plugins(reg, files, paths, order) == discover_from(reg, files, paths, order, <<>>)

\* The configurations plugins are loaded with, and what the files may hold.
LoadConfigs ==
    { PluginConfig(path, id, enabled, sandbox) :
        path \in PluginPaths, id \in { <<>>, <<I_a>> }, enabled \in BOOLEAN,
        sandbox \in SandboxConfigs({{Time, Random}}, {<<MaxFuel>>}) }

HostModules == { m \in Modules : m.instantiates /\ ~m.loops }

FileContents == { Absent, Garbage } \cup { Wasm(m) : m \in HostModules }

HostOp(name, id, act, res) == [op |-> name, id |-> id, action |-> act, result |-> res]

InitHost ==
    /\ fs \in { files \in SandboxFsStates :
                    /\ files[<<RootDir, g>>] = "dir"
                    /\ files[<<RootDir, g, f>>] = "file"
                    /\ files[<<RootDir, e, f>>] = "file" }
    /\ now = 0
    /\ config = DefaultSandboxConfig
    /\ NoSandboxState
    /\ NoCall /\ NoCovers /\ NoExec /\ NoPair /\ NoRunner /\ NoInput
    /\ wasm_files \in [PluginPaths -> FileContents]
    /\ plugins = [i \in PluginIds |-> NoInstance]
    /\ host_op = NoOp
    /\ search_paths = <<P_plugins>>

\* A registry that execute_action empties.
cleared(reg) == [i \in DOMAIN reg |-> NoInstance]

\* The registry after an operation that takes &self: as it was.
shared_borrow(reg) == reg

\* A mutable borrow of the host that is taken whatever borrows are out.
exclusive_unchecked(p) == TRUE

\* The operations that take &mut self: no execute_action, which borrows the
\* host and the instance it runs, is in flight.
exclusive(p) == p \in {"idle", "done"}

\* Someone writes, replaces or removes a plugin file.
EditPluginFileTo(contents) ==
    /\ \E path \in DOMAIN wasm_files, held \in contents :
            wasm_files' = [wasm_files EXCEPT ![path] = held]
    /\ UNCHANGED <<fs, now, sandbox_vars, call_vars, covers_vars, exec_vars, plugins,
                   host_op, search_paths, pair_vars, runner_vars, input_vars>>

\* host.load_plugin(config), for one of these configurations
LoadPluginOf(cfgs) ==
    /\ exclusive(pc)
    /\ \E cfg \in cfgs :
        \E out \in { load_plugin(plugins, wasm_files, cfg) } :
            /\ plugins' = out.plugins
            /\ host_op' = HostOp("load_plugin", <<get_id(cfg)>>, <<>>, out.result)
    /\ UNCHANGED <<fs, now, sandbox_vars, call_vars, covers_vars, exec_vars, wasm_files,
                   search_paths, pair_vars, runner_vars, input_vars>>

LoadPlugin == LoadPluginOf(LoadConfigs)

\* host.unload_plugin(id)
UnloadPlugin ==
    /\ exclusive(pc)
    /\ \E id \in DOMAIN plugins :
        \E out \in { unload_plugin(plugins, id) } :
            /\ plugins' = out.plugins
            /\ host_op' = HostOp("unload_plugin", <<id>>, <<>>, out.result)
    /\ UNCHANGED <<fs, now, sandbox_vars, call_vars, covers_vars, exec_vars, wasm_files,
                   search_paths, pair_vars, runner_vars, input_vars>>

\* host.reload_plugin(id)
ReloadPlugin ==
    /\ exclusive(pc)
    /\ \E id \in DOMAIN plugins :
        \E out \in { reload_plugin(plugins, wasm_files, id) } :
            /\ plugins' = out.plugins
            /\ host_op' = HostOp("reload_plugin", <<id>>, <<>>, out.result)
    /\ UNCHANGED <<fs, now, sandbox_vars, call_vars, covers_vars, exec_vars, wasm_files,
                   search_paths, pair_vars, runner_vars, input_vars>>

\* host.discover_plugins(): read_dir yields the files in some order.
DiscoverPlugins ==
    /\ exclusive(pc)
    /\ \E order \in Orderings(DOMAIN wasm_files) :
        \E out \in { discover_plugins(plugins, wasm_files, search_paths, order) } :
            /\ plugins' = out.plugins
            /\ host_op' = HostOp("discover_plugins", <<>>, <<>>, out.result)
    /\ UNCHANGED <<fs, now, sandbox_vars, call_vars, covers_vars, exec_vars, wasm_files,
                   search_paths, pair_vars, runner_vars, input_vars>>

\* host.execute_action(plugin_id, action, ctx), up to the call of
\* sandbox.execute: the plugin is looked up, then the action in its list.
\* One invocation runs at a time.
ExecuteAction ==
    /\ pc \in {"idle", "done"}
    /\ \E id \in DOMAIN plugins, name \in ActionNames :
        IF ~plugins[id].loaded
        THEN /\ host_op' = HostOp("execute_action", <<id>>, name, Err("NotFound"))
             /\ UNCHANGED <<sandbox_vars, exec_vars>>
        ELSE IF ~has_action(plugins[id], name)
        THEN /\ host_op' = HostOp("execute_action", <<id>>, name, Err("ExecutionFailed"))
             /\ UNCHANGED <<sandbox_vars, exec_vars>>
        ELSE /\ host_op' = HostOp("execute_action", <<id>>, name, NoResult)
             /\ execute_begins(plugins[id].config.sandbox, plugins[id].module, name)
    /\ plugins' = shared_borrow(plugins)
    /\ UNCHANGED <<fs, now, call_vars, covers_vars, wasm_files, search_paths, pair_vars,
                   runner_vars, input_vars>>

EditPluginFile == EditPluginFileTo(FileContents)

NextHost ==
    \/ EditPluginFile
    \/ LoadPlugin \/ UnloadPlugin \/ ReloadPlugin \/ DiscoverPlugins
    \/ ExecuteAction
    \/ Invocation

SpecHost == InitHost /\ [][NextHost]_vars

----------------------------------------------------------------------------
(* host.rs: the registry on its own, with more files, ids and search paths *)

DirectoryPaths == PluginPaths \cup { P_c }
RegistryIds    == PluginIds \cup { I_c, I_unknown }

\* The search paths added to the host before it is used.
SearchPathLists ==
    { <<P_plugins>>, <<P_m, P_plugins>>, <<P_q, P_plugins>>, <<P_plugins, P_q>> }

RegistryConfigs ==
    { PluginConfig(path, id, enabled, sandbox) :
        path \in PluginPaths \cup { P_root }, id \in { <<>>, <<I_a>> }, enabled \in BOOLEAN,
        sandbox \in SandboxConfigs({{Time, Random}}, {<<MaxFuel>>}) }

InitRegistry ==
    /\ fs \in { files \in SandboxFsStates :
                    /\ files[<<RootDir, g>>] = "dir"
                    /\ files[<<RootDir, g, f>>] = "file"
                    /\ files[<<RootDir, e, f>>] = "file" }
    /\ now = 0
    /\ config = DefaultSandboxConfig
    /\ NoSandboxState
    /\ NoCall /\ NoCovers /\ NoExec /\ NoPair /\ NoRunner /\ NoInput
    /\ wasm_files \in [DirectoryPaths -> FileContents]
    /\ plugins = [i \in RegistryIds |-> NoInstance]
    /\ host_op = NoOp
    /\ search_paths \in SearchPathLists

RegistryLoadPlugin == LoadPluginOf(RegistryConfigs)

NextRegistry ==
    \/ EditPluginFile
    \/ RegistryLoadPlugin \/ UnloadPlugin \/ ReloadPlugin \/ DiscoverPlugins

SpecRegistry == InitRegistry /\ [][NextRegistry]_vars

\* The host with plugin files of two modules that export different actions:
\* loads under an id that has an instance, and the calls that follow.
OtherExports ==
    { [name |-> N_memory, func |-> TRUE], [name |-> N_internal, func |-> TRUE] }

ReplaceContents ==
    { Wasm([mod EXCEPT !.exports = ex]) : mod \in HostModules, ex \in {GuestExports, OtherExports} }

InitReplace ==
    /\ fs \in { files \in SandboxFsStates :
                    /\ files[<<RootDir, g>>] = "dir"
                    /\ files[<<RootDir, g, f>>] = "file"
                    /\ files[<<RootDir, e, f>>] = "file" }
    /\ now = 0
    /\ config = DefaultSandboxConfig
    /\ NoSandboxState
    /\ NoCall /\ NoCovers /\ NoExec /\ NoPair /\ NoRunner /\ NoInput
    /\ wasm_files \in [PluginPaths -> ReplaceContents]
    /\ plugins = [i \in PluginIds |-> NoInstance]
    /\ host_op = NoOp
    /\ search_paths = <<P_plugins>>

ReplacePluginFile == EditPluginFileTo(ReplaceContents)

NextReplace == ReplacePluginFile \/ LoadPlugin \/ ExecuteAction \/ Invocation

SpecReplace == InitReplace /\ [][NextReplace]_vars

----------------------------------------------------------------------------
(* rpa-fs-workflow: WorkflowRunner, DynamicAction, PluginActionWrapper;
   rpa-core: WorkflowState *)

\* WorkflowState::start, record_event, record_action
start(st)         == [st EXCEPT !.status = "Running"]
stop(st)          == [st EXCEPT !.status = "Stopped"]
record_event(st)  == [st EXCEPT !.events_processed = @ + 1]
record_action(st) == [st EXCEPT !.actions_executed = @ + 1]

\* An error that also ends the workflow.
record_error_fatal(st) == [st EXCEPT !.error_count = @ + 1, !.status = "Error"]

\* WorkflowState::record_error
record_error(st) == [st EXCEPT !.error_count = @ + 1]

\* The events the watcher delivers.
FileEvent(kind, path) == [kind |-> kind, path |-> path]
ManualEvent           == [kind |-> "Manual"]
WatchedEvents ==
    { FileEvent(kind, P_gf) : kind \in {"FileCreated", "FileModified", "FileDeleted"} }
    \cup { ManualEvent }

\* What the channel of the watcher holds besides: a watch error, or an event
\* of a kind convert_event ignores.
Ignored == [kind |-> "Ignored"]

\* FsWatcher::next_event, once recv has returned this: an Option.
next_event(received) == IF received = Ignored THEN <<>> ELSE <<received>>

\* The configured actions: of a plugin, or on the filesystem.
PluginActionConfig(plugin, name, cfg) ==
    [type |-> "Plugin", plugin |-> plugin, action |-> name, config |-> cfg]
FsActionConfig(type) == [type |-> type]

\* The rules of the workflow configuration, in their order.
RuleConfig(name, patterns, types, actions, enabled) ==
    [name |-> name, patterns |-> patterns, events |-> types, actions |-> actions,
     enabled |-> enabled]

Rules ==
    << RuleConfig("plug", <<>>, {"Created", "Modified"},
                  << PluginActionConfig(I_a, N_run, [key \in {"k"} |-> "v"]),
                     FsActionConfig("Copy") >>, TRUE),
       RuleConfig("tidy", << <<"[">>, <<"*">> >>, {"Created"},
                  << FsActionConfig("Delete") >>, TRUE),
       RuleConfig("off", <<>>, {"Created", "Modified", "Deleted"},
                  << PluginActionConfig(I_b, N_run, [key \in {} |-> "v"]) >>, FALSE) >>

\* The EventType of an event, an Option: none for Manual and Scheduled.
event_type(event) ==
    CASE event.kind = "FileCreated"  -> <<"Created">>
      [] event.kind = "FileModified" -> <<"Modified">>
      [] event.kind = "FileDeleted"  -> <<"Deleted">>
      [] event.kind = "FileRenamed"  -> <<"Renamed">>
      [] OTHER -> <<>>

\* glob::Pattern::new(..).is_ok() and Pattern::matches, for the patterns of
\* the rules: "[" is no pattern, "*" matches every name, a name itself.
pattern_is_valid(pattern)      == pattern # <<"[">>
pattern_matches(pattern, name) == pattern = <<"*">> \/ pattern = name

\* WorkflowRunner::rule_matches_static
rule_matches_static(rule, event) ==
    IF event_type(event) = <<>> THEN FALSE
    ELSE IF event_type(event)[1] \notin rule.events THEN FALSE
    ELSE IF rule.patterns = <<>> THEN TRUE
    ELSE LET name     == file_name(event.path)
             filename == IF name = <<>> THEN <<>> ELSE name[1]
         IN  \E k \in 1..Len(rule.patterns) :
                /\ pattern_is_valid(rule.patterns[k])
                /\ pattern_matches(rule.patterns[k], filename)

\* The actions handle_event executes for an event: those of the enabled
\* rules that match, rule after rule, each rule's actions in their order.
RECURSIVE rule_actions(_, _, _)
rule_actions(rule, event, k) ==
    IF k > Len(rule.actions) THEN <<>>
    ELSE << [event |-> event, rule |-> rule.name, action |-> rule.actions[k]] >>
         \o rule_actions(rule, event, k + 1)

\* The same actions, the last matching rule first.
RECURSIVE handle_event_backwards(_, _, _)
handle_event_backwards(rules, event, k) ==
    IF k > Len(rules) THEN <<>>
    ELSE handle_event_backwards(rules, event, k + 1)
         \o (IF rules[k].enabled /\ rule_matches_static(rules[k], event)
             THEN rule_actions(rules[k], event, 1) ELSE <<>>)

RECURSIVE handle_event(_, _, _)
handle_event(rules, event, k) ==
    IF k > Len(rules) THEN <<>>
    ELSE (IF rules[k].enabled /\ rule_matches_static(rules[k], event)
          THEN rule_actions(rules[k], event, 1) ELSE <<>>)
         \o handle_event(rules, event, k + 1)

\* PluginActionWrapper::new: no host
PluginActionWrapper_new(plugin, name, cfg) ==
    [type |-> "Plugin", plugin_id |-> plugin, action_name |-> name, config |-> cfg,
     host |-> <<>>]

\* DynamicAction::from_config
from_config(action_config) ==
    IF action_config.type = "Plugin"
    THEN PluginActionWrapper_new(action_config.plugin, action_config.action,
                                 action_config.config)
    ELSE action_config

\* The results of actions: Ok(ActionResult) with its success flag, or an error.
ActionOk(flag) == [type |-> "Ok", success |-> flag]

\* action.execute(event): the calls of PluginHost::execute_action it makes,
\* and the results it may return.  A filesystem action succeeds, fails or
\* errs as the files have it.
action_execute(act, event) ==
    IF act.type = "Plugin"
    THEN IF act.host = <<>>
         THEN [calls |-> <<>>, results |-> { Err("ActionFailed") }]
         ELSE [calls   |-> << [plugin_id |-> act.plugin_id, action |-> act.action_name,
                               ctx |-> [event |-> event, config |-> act.config]] >>,
               results |-> { ActionOk(TRUE), Err("ActionFailed") }]
    ELSE [calls |-> <<>>, results |-> { ActionOk(TRUE), ActionOk(FALSE), Err("ActionFailed") }]

\* execute_rule_actions, the arms of the match: the WorkflowState after an
\* action returned this.
action_recorded(st, res) ==
    IF res.type = "Ok"
    THEN IF res.success THEN record_action(st) ELSE record_error(record_action(st))
    ELSE record_error(st)

InitRunner ==
    /\ fs \in { files \in SandboxFsStates :
                    /\ files[<<RootDir, g>>] = "dir"
                    /\ files[<<RootDir, g, f>>] = "file"
                    /\ files[<<RootDir, e, f>>] = "file" }
    /\ now = 0
    /\ config = DefaultSandboxConfig
    /\ NoSandboxState
    /\ NoCall /\ NoCovers /\ NoExec /\ NoHost /\ NoPair /\ NoRunner /\ NoInput

\* runner.run(), up to the event loop: state.start() and the store of true.
RunnerStart ==
    /\ state.status = "Idle"
    /\ state' = start(state)
    /\ running' = TRUE
    /\ UNCHANGED <<fs, now, sandbox_vars, call_vars, covers_vars, exec_vars, host_vars,
                   pair_vars, input_vars, events, handling, handled, outcome, waiting,
                   delivered, stops>>

\* The watcher's thread sends an event, or an error, to the channel.
WatcherEvent ==
    /\ delivered < MaxEvents
    /\ delivered' = delivered + 1
    /\ \E event \in WatchedEvents \cup {Ignored} : events' = Append(events, event)
    /\ UNCHANGED <<fs, now, sandbox_vars, call_vars, covers_vars, exec_vars, host_vars,
                   pair_vars, input_vars, state, running, handling, handled, outcome,
                   waiting, stops>>

\* while self.running.load(): the flag is set, and run() calls
\* watcher.next_event().
LoopCheck ==
    /\ state.status = "Running" /\ ~waiting /\ handling = <<>>
    /\ running
    /\ waiting' = TRUE
    /\ UNCHANGED <<fs, now, sandbox_vars, call_vars, covers_vars, exec_vars, host_vars,
                   pair_vars, input_vars, state, running, events, handling, handled, outcome,
                   delivered, stops>>

\* recv returns: for an event record_event, then handle_event up to the
\* first action; for none the loop comes round.
NextEvent ==
    /\ waiting /\ events # <<>>
    /\ waiting' = FALSE
    /\ events' = Tail(events)
    /\ LET event == next_event(Head(events))
       IN  IF event = <<>>
           THEN UNCHANGED <<state, handling>>
           ELSE /\ state' = record_event(state)
                /\ handling' = handle_event(Rules, event[1], 1)
    /\ UNCHANGED <<fs, now, sandbox_vars, call_vars, covers_vars, exec_vars, host_vars,
                   pair_vars, input_vars, running, handled, outcome, delivered, stops>>

\* execute_rule_actions: the next action is made from its configuration and
\* executed, and what it returns is recorded.
ExecuteNextAction ==
    /\ handling # <<>>
    /\ LET next == Head(handling)
           run  == action_execute(from_config(next.action), next.event)
       IN  /\ \E res \in run.results :
                /\ outcome' = res
                /\ state' = action_recorded(state, res)
           /\ handled' = << [event |-> next.event, rule |-> next.rule,
                             action |-> next.action, calls |-> run.calls] >>
    /\ handling' = Tail(handling)
    /\ UNCHANGED <<fs, now, sandbox_vars, call_vars, covers_vars, exec_vars, host_vars,
                   pair_vars, input_vars, running, events, waiting, delivered, stops>>

\* runner.stop(), or a store of false to the stop handle (the Ctrl-C
\* handler), from another thread: at any time once the runner is made.  A
\* second store in the same status changes nothing.
RunnerStop ==
    /\ state.status # "Stopped"
    /\ \A made \in stops : made.status # state.status
    /\ running' = FALSE
    /\ stops' = stops \cup { [status |-> state.status, delivered |-> delivered] }
    /\ UNCHANGED <<fs, now, sandbox_vars, call_vars, covers_vars, exec_vars, host_vars,
                   pair_vars, input_vars, state, events, handling, handled, outcome, waiting,
                   delivered>>

\* while self.running.load(): the flag is clear, and state.stop().
RunnerExit ==
    /\ state.status = "Running" /\ ~waiting /\ handling = <<>>
    /\ ~running
    /\ state' = stop(state)
    /\ UNCHANGED <<fs, now, sandbox_vars, call_vars, covers_vars, exec_vars, host_vars,
                   pair_vars, input_vars, running, events, handling, handled, outcome, waiting,
                   delivered, stops>>

NextRunner ==
    \/ RunnerStart \/ WatcherEvent \/ LoopCheck \/ NextEvent \/ ExecuteNextAction
    \/ RunnerStop \/ RunnerExit

SpecRunner == InitRunner /\ [][NextRunner]_vars

\* The same, where the runner's thread keeps running its loop.
SpecRunnerFair ==
    /\ SpecRunner
    /\ WF_vars(LoopCheck) /\ WF_vars(NextEvent) /\ WF_vars(ExecuteNextAction)
    /\ WF_vars(RunnerExit)

----------------------------------------------------------------------------
(* rpa-fs-workflow: the plugin records of the workflow configuration *)

\* default_enabled, default_memory_limit, default_timeout
default_enabled      == TRUE
default_memory_limit == 67108864
default_timeout      == 30000

\* PluginSandboxConfig::default(), as derived: every field its type's default.
PluginSandboxConfig_default ==
    [memory_limit |-> 0, timeout_ms |-> 0, read_paths |-> <<>>, write_paths |-> <<>>,
     env_vars |-> <<>>]

\* Deserialize for PluginSandboxConfig: a field left out takes its serde
\* default.  An optional field of a record is <<>> when left out.
deserialize_sandbox(rec) ==
    [memory_limit |-> IF rec.memory_limit = <<>> THEN default_memory_limit
                      ELSE rec.memory_limit[1],
     timeout_ms   |-> IF rec.timeout_ms = <<>> THEN default_timeout ELSE rec.timeout_ms[1],
     read_paths   |-> rec.read_paths,
     write_paths  |-> rec.write_paths,
     env_vars     |-> rec.env_vars]

\* Deserialize for PluginLoadConfig: `sandbox` left out is Default::default().
deserialize_plugin(rec) ==
    [path    |-> rec.path,
     id      |-> rec.id,
     enabled |-> IF rec.enabled = <<>> THEN default_enabled ELSE rec.enabled[1],
     sandbox |-> IF rec.sandbox = <<>> THEN PluginSandboxConfig_default
                 ELSE deserialize_sandbox(rec.sandbox[1])]

\* PermissionSet::add with every permission granted.
add_granting_all(perms, perm) == perms \cup {perm, AllEnv}

\* PermissionSet::add: HashSet::insert, which keeps the element it has.
add(perms, perm) ==
    IF \E held \in perms : perm_eq(held, perm) THEN perms ELSE perms \cup {perm}

\* for item in list { permissions.add(make(item)) }
RECURSIVE add_each(_, _, _)
add_each(perms, list, type) ==
    IF list = <<>> THEN perms
    ELSE add_each(add(perms, CASE type = "ReadPath"  -> ReadPath(Head(list))
                               [] type = "WritePath" -> WritePath(Head(list))
                               [] type = "Env"       -> Env(Head(list))),
                  Tail(list), type)

\* PluginSandboxConfig::to_sandbox_config
to_sandbox_config(self) ==
    LET base == add(add({}, Time), Random)
        read == add_each(base, self.read_paths, "ReadPath")
        both == add_each(read, self.write_paths, "WritePath")
        all  == add_each(both, self.env_vars, "Env")
    IN  [memory_limit |-> self.memory_limit, timeout_ms |-> self.timeout_ms,
         fuel_limit |-> <<100000000>>, permissions |-> all, work_dir |-> None]

\* No sandbox configuration made yet.
NoSandboxConfig ==
    [memory_limit |-> 0, timeout_ms |-> 0, fuel_limit |-> <<>>, permissions |-> {},
     work_dir |-> None]

\* The plugin records read: with and without a sandbox record, and in it
\* with and without each field.
PathLists == { <<>>, <<P_g>>, <<P_g, P_gs>>, <<P_g, P_e>> }
SandboxRecords ==
    [memory_limit : {<<>>, <<MemoryLimit>>},
     timeout_ms   : {<<>>, <<TimeoutMs>>},
     read_paths   : PathLists,
     write_paths  : {<<>>, <<P_e>>},
     env_vars     : {<<>>, <<"HOME">>, <<"HOME", "PATH">>}]
PluginRecords ==
    [path    : {P_a},
     id      : {<<>>, <<I_a>>},
     enabled : {<<>>, <<FALSE>>},
     sandbox : {<<>>} \cup { <<rec>> : rec \in SandboxRecords }]

InitConfig ==
    /\ fs \in { files \in SandboxFsStates :
                    /\ files[<<RootDir, g>>] = "dir"
                    /\ files[<<RootDir, g, f>>] = "file"
                    /\ files[<<RootDir, e, f>>] = "file" }
    /\ now = 0
    /\ config = NoSandboxConfig
    /\ NoSandboxState
    /\ NoCall /\ NoCovers /\ NoExec /\ NoHost /\ NoPair /\ NoRunner
    /\ plugin_record \in { <<rec>> : rec \in PluginRecords }
    /\ plugin_load = <<>> /\ file_bytes = <<>>

\* WorkflowConfig::load: the plugin record is deserialized.
DeserializePlugin ==
    /\ plugin_record # <<>> /\ plugin_load = <<>>
    /\ plugin_load' = << deserialize_plugin(plugin_record[1]) >>
    /\ UNCHANGED <<fs, now, sandbox_vars, call_vars, covers_vars, exec_vars, host_vars,
                   pair_vars, runner_vars, plugin_record, file_bytes>>

\* plugin.sandbox.to_sandbox_config()
ToSandboxConfig ==
    /\ plugin_load # <<>> /\ config = NoSandboxConfig
    /\ config' = to_sandbox_config(plugin_load[1].sandbox)
    /\ UNCHANGED <<fs, now, sandbox_vars, call_vars, covers_vars, module, action, pc, fuel,
                   memory, guest_vars, result, host_vars, pair_vars, runner_vars,
                   input_vars>>

NextConfig == DeserializePlugin \/ ToSandboxConfig

SpecConfig == InitConfig /\ [][NextConfig]_vars

----------------------------------------------------------------------------
(* rpa-plugin: mod base64, and the ReadFile arm of handle_request *)

\* ALPHABET
ALPHABET ==
    << "A", "B", "C", "D", "E", "F", "G", "H", "I", "J", "K", "L", "M", "N", "O", "P",
       "Q", "R", "S", "T", "U", "V", "W", "X", "Y", "Z", "a", "b", "c", "d", "e", "f",
       "g", "h", "i", "j", "k", "l", "m", "n", "o", "p", "q", "r", "s", "t", "u", "v",
       "w", "x", "y", "z", "0", "1", "2", "3", "4", "5", "6", "7", "8", "9", "+", "/" >>

\* n |= (byte as u32) << (16 - i * 8), over the bytes of the chunk: the bits
\* of the bytes do not overlap, and 24 bits fit in the u32.
RECURSIVE chunk_bits(_, _)
chunk_bits(chunk, i) ==
    IF i >= Len(chunk) THEN 0
    ELSE chunk[i + 1] * 2^(16 - i * 8) + chunk_bits(chunk, i + 1)

\* The characters pushed for i in from..to-1: ALPHABET[(n >> (18 - i * 6)) & 0x3F]
RECURSIVE chunk_chars(_, _, _)
chunk_chars(n, from, to) ==
    IF from >= to THEN <<>>
    ELSE << ALPHABET[((n \div 2^(18 - from * 6)) % 64) + 1] >> \o chunk_chars(n, from + 1, to)

\* for _ in chars..4 { result.push('=') }
RECURSIVE chunk_padding(_, _)
chunk_padding(from, to) ==
    IF from >= to THEN <<>> ELSE <<"=">> \o chunk_padding(from + 1, to)

\* A chunk encoded without the padding.
encode_chunk_unpadded(chunk) ==
    chunk_chars(chunk_bits(chunk, 0), 0, IF Len(chunk) = 3 THEN 4 ELSE Len(chunk) + 1)

\* The body of the loop over data.chunks(3)
encode_chunk(chunk) ==
    LET n     == chunk_bits(chunk, 0)
        chars == CASE Len(chunk) = 3 -> 4
                   [] Len(chunk) = 2 -> 3
                   [] Len(chunk) = 1 -> 2
                   [] OTHER -> 0
    IN  chunk_chars(n, 0, chars) \o chunk_padding(chars, 4)

\* base64::Engine::encode
RECURSIVE encode(_)
encode(data) ==
    IF data = <<>> THEN <<>>
    ELSE IF Len(data) <= 3 THEN encode_chunk(data)
    ELSE encode_chunk(SubSeq(data, 1, 3)) \o encode(SubSeq(data, 4, Len(data)))

\* The data of the response to a ReadFile of a file that holds `content`.
read_file_data(content) == [content |-> encode(content), size |-> Len(content)]

\* The bytes a file may hold.
RECURSIVE ByteStrings(_)
ByteStrings(len) ==
    IF len = 0 THEN { <<>> }
    ELSE LET shorter == ByteStrings(len - 1)
         IN  shorter \cup { Append(bytes, byte) : bytes \in shorter, byte \in {0, 104, 105, 255} }

InitRead ==
    /\ fs \in { files \in SandboxFsStates :
                    /\ files[<<RootDir, g>>] = "dir"
                    /\ files[<<RootDir, g, f>>] = "file"
                    /\ files[<<RootDir, e, f>>] = "file" }
    /\ now = 0
    /\ config \in SandboxConfigs({{ReadPath(P_g), Time}, {Time}}, {<<MaxFuel>>})
    /\ SandboxStateIs(SandboxState_new(config, now))
    /\ NoCall /\ NoCovers /\ NoExec /\ NoHost /\ NoPair /\ NoRunner
    /\ plugin_record = <<>> /\ plugin_load = <<>>
    /\ file_bytes \in ByteStrings(MaxBytes)

\* handle_request with a ReadFile of /g/f, the file with these bytes, or of the
\* directory it is in.
HandleReadFile ==
    \E req \in { ReadFile(P_gf), ReadFile(P_g) } :
        \E out \in { handle_request(fs, permissions, logs, now - start_time, timeout_ms, req) } :
            /\ request' = req
            /\ response' = IF out.response.type = "Success"
                            THEN success_with_data(read_file_data(file_bytes))
                            ELSE out.response
            /\ performed' = out.performed
            /\ logs' = out.logs
            /\ fs' = out.fs
            /\ timed_out' = (timed_out \/ ~check_timeout(now - start_time, timeout_ms))
            /\ UNCHANGED <<now, permissions, work_dir, start_time, timeout_ms, covers_vars,
                           exec_vars, host_vars, pair_vars, runner_vars, input_vars>>

NextRead == Tick \/ HandleReadFile

SpecRead == InitRead /\ [][NextRead]_vars

----------------------------------------------------------------------------
(* Properties of handle_request *)

\* The permission each request requires (none for Log).
RequiredPermission(req) ==
    CASE req.type = "ReadFile"     -> ReadPath(req.path)
      [] req.type = "WriteFile"    -> WritePath(req.path)
      [] req.type = "ListDir"      -> ReadPath(req.path)
      [] req.type = "GetEnv"       -> Env(req.name)
      [] req.type = "CurrentTime"  -> Time
      [] req.type = "GenerateUuid" -> Random
      [] req.type = "Log"          -> None

\* A step that handles a request: the clock is read, not advanced.
Handled == now' = now
\* The request of the step is handled before / after the deadline.
BeforeDeadline == now - start_time <= timeout_ms
AfterDeadline  == now - start_time > timeout_ms

\* C1: a request handled before the deadline performs its operation only if
\* some permission of the set covers the permission the request requires;
\* otherwise the response is PermissionDenied and nothing is performed.
C1_OperationOnlyIfCovered ==
    [][ (Handled /\ BeforeDeadline /\ request'.type # "Log") =>
          LET allowed == check(fs, permissions, RequiredPermission(request'))
          IN  /\ performed' # <<>> => allowed
              /\ ~allowed => /\ response'.type = "PermissionDenied"
                             /\ performed' = <<>>
                             /\ fs' = fs ]_vars

C1_Witness ==
    /\ request.type = "WriteFile"
    /\ permissions # {}
    /\ response.type = "PermissionDenied"
    /\ performed = <<>>

\* C2: a request handled when the elapsed time strictly exceeds timeout_ms
\* is answered Error, performs nothing and leaves the log buffer as it was,
\* whatever its kind and the permission set; after one request has timed
\* out every later request is answered Error.
C2_TimeoutStopsEverything ==
    [][ Handled =>
          /\ AfterDeadline => /\ response'.type = "Error"
                              /\ performed' = <<>>
                              /\ logs' = logs
                              /\ fs' = fs
          /\ timed_out => response'.type = "Error" ]_vars

C2_Witness ==
    /\ request.type = "Log"
    /\ response.type = "Error"
    /\ logs # <<>>
    /\ now - start_time > timeout_ms
    /\ timed_out

\* C10 as stated: with an empty permission set every request but Log is
\* answered PermissionDenied.
C10_EmptySetAlwaysDenied ==
    (permissions = {} /\ request.type \notin {"None", "Log"})
        => response.type = "PermissionDenied"

\* C10 amended: with an empty permission set every request but Log that is
\* handled before the deadline is answered PermissionDenied and performs
\* nothing; a Log request handled before the deadline succeeds.
C10_EmptySetDeniedBeforeDeadline ==
    [][ (Handled /\ BeforeDeadline /\ permissions = {}) =>
          IF request'.type = "Log"
          THEN response'.type = "Success"
          ELSE response'.type = "PermissionDenied" /\ performed' = <<>> ]_vars

C10_Witness ==
    /\ permissions = {}
    /\ request.type = "GenerateUuid"
    /\ response.type = "PermissionDenied"

\* C22: a request answered PermissionDenied ends nothing: the sandbox state,
\* its permission set and deadline among it, and the filesystem are as they
\* were, and every request made next is answered as it would have been
\* without the denied request.
C22_DenialIsOrdinary ==
    [][ (Handled /\ response'.type = "PermissionDenied") =>
          /\ UNCHANGED <<fs, sandbox_vars, pc, result>>
          /\ timed_out' = timed_out
          /\ \A req \in Requests :
                handle_request(fs', permissions', logs', now - start_time', timeout_ms', req)
                    = handle_request(fs, permissions, logs, now - start_time, timeout_ms, req)
      ]_vars

C22_Witness ==
    /\ request.type = "ReadFile" /\ response.type = "PermissionDenied"
    /\ now - start_time <= timeout_ms
    /\ handle_request(fs, permissions, logs, now - start_time, timeout_ms,
                      CurrentTime).response.type = "Success"

\* The entry a path leads to: the one it resolves to, or the one a write
\* would create; none when the way to it does not exist.
Location(files, text) ==
    LET c == canonicalize(files, text)
    IN  IF c.ok THEN c ELSE fs_write_target(files, text)

PathRequest(req) == req.type \in {"ReadFile", "WriteFile", "ListDir"}

\* The granted paths of the kind the path request needs.
GrantedRoots(perms, req) ==
    { p.path : p \in { q \in perms : q.type = RequiredPermission(req).type } }

\* The requested text starts with the granted one, has ".." components, and
\* leads to an entry outside the granted root.
EscapesRoot(files, root, text) ==
    /\ starts_with(components(text), components(root))
    /\ \E i \in 1..Len(components(text)) : components(text)[i] = ParentDir
    /\ Location(files, text).ok
    /\ ~starts_with(Location(files, text).node, canonical_or_literal(files, root))

\* C4: a path request that starts with a granted root but leaves it through
\* ".." components is answered PermissionDenied and performs no file
\* operation, whether its target exists or not.
C4_TraversalDenied ==
    [][ (Handled /\ BeforeDeadline /\ PathRequest(request')
            /\ GrantedRoots(permissions, request') # {}
            /\ \A root \in GrantedRoots(permissions, request') :
                    EscapesRoot(fs, root, request'.path)) =>
          /\ response'.type = "PermissionDenied"
          /\ performed' = <<>>
          /\ fs' = fs ]_vars

\* C5: for a fixed permission set and requested path, whether ReadFile is
\* answered PermissionDenied is the same in every filesystem state.
C5_DecisionIgnoresFilesystem ==
    [][ (Handled /\ BeforeDeadline /\ request'.type = "ReadFile") =>
          \A other \in FsStates :
              (response'.type = "PermissionDenied") <=>
              (handle_request(other, permissions, logs, now - start_time,
                              timeout_ms, request').response.type = "PermissionDenied") ]_vars

\* The requested path is the granted root or lies under it by whole
\* components, without ".." components.
AtOrUnder(root, text) ==
    /\ starts_with(components(text), components(root))
    /\ \A i \in 1..Len(components(text)) : components(text)[i] # ParentDir

\* C6: a path request for a granted root, or for a path under a granted
\* root, of the kind the request needs is not answered PermissionDenied.
C6_UnderRootNotDenied ==
    [][ (Handled /\ BeforeDeadline /\ PathRequest(request')
            /\ \E root \in GrantedRoots(permissions, request') :
                    AtOrUnder(root, request'.path)) =>
          response'.type # "PermissionDenied" ]_vars

----------------------------------------------------------------------------
(* Properties of Sandbox::execute *)

\* C3: every call the guest has made to the host import went through
\* handle_request on the invocation's state, and the guest received the
\* response handle_request gave.
C3_HostCallsAreMediated ==
    calls > 0 =>
        /\ request = guest_request
        /\ response.type \in {"Success", "Error", "PermissionDenied"}
        /\ guest_response = response

----------------------------------------------------------------------------
(* Properties of Permission::covers *)

SameKindPaths(a, b) ==
    \/ a.type = "ReadPath" /\ b.type = "ReadPath"
    \/ a.type = "WritePath" /\ b.type = "WritePath"

\* The text of component c starts with that of component d and is longer.
ExtendsComponent(c, d) ==
    /\ Len(d) < Len(c)
    /\ SubSeq(c, 1, Len(d)) = d

\* The requested text is the granted one with its last component made
\* longer, and perhaps more components after it (/g and /gx, /gx/f).
ExtendsLastComponent(granted_path, requested_path) ==
    LET gc == components(granted_path)
        rc == components(requested_path)
        n  == Len(gc)
    IN  /\ n >= 1 /\ Len(rc) >= n
        /\ gc[n] \notin {RootDir, CurDir, ParentDir}
        /\ SubSeq(rc, 1, n - 1) = SubSeq(gc, 1, n - 1)
        /\ ExtendsComponent(rc[n], gc[n])

\* Some entry on the way of the path, as written, is a symbolic link.
ThroughLink(files, text) ==
    LET comps == components(text)
        full  == IF comps # <<>> /\ comps[1] = RootDir THEN comps ELSE Cwd \o comps
    IN  \E k \in 1..Len(full) :
            /\ SubSeq(full, 1, k) \in Nodes
            /\ files[SubSeq(full, 1, k)] = "link"

C8_CoversOutsidePaths ==
    (covered # <<>> /\ ~SameKindPaths(granted, requested)) =>
        ( covered = <<TRUE>> <=>
            \/ granted = requested
            \/ granted = AllEnv /\ requested.type = "Env"
            \/ /\ granted.type = "Network" /\ requested.type = "Network"
               /\ granted.port = <<>> /\ granted.host = requested.host )

C8_Witness ==
    /\ granted = Network("h", <<80>>) /\ requested = Network("h", <<>>)
    /\ covered = <<FALSE>>

\* C9: every permission covers itself, and among path permissions of one
\* kind coverage is transitive: if the granted covers some permission that
\* covers the requested, the granted covers the requested.
C9_ReflexiveAndTransitive ==
    covered # <<>> =>
        /\ granted = requested => covered = <<TRUE>>
        /\ SameKindPaths(granted, requested) =>
            \A mid \in PathPerms :
                (mid.type = granted.type
                    /\ covers(fs, granted, mid) /\ covers(fs, mid, requested))
                    => covered = <<TRUE>>

C9_Witness ==
    /\ granted = ReadPath(P_e) /\ requested = ReadPath(P_gf)
    /\ fs[<<RootDir, g>>] = "link" /\ fs[<<RootDir, e, f>>] = "file"
    /\ covers(fs, granted, ReadPath(P_g)) /\ covers(fs, ReadPath(P_g), requested)
    /\ covered = <<TRUE>>

----------------------------------------------------------------------------
(* Properties of one invocation *)

\* An invocation is under way.
InFlight == pc \notin {"idle", "done"}

\* C11: an invocation whose guest called the host import after the deadline
\* (elapsed time above timeout_ms at the call) ends with the error Timeout.
C11_LateHostCallEndsInTimeout ==
    (pc = "done" /\ guest_elapsed # <<>> /\ guest_elapsed[1] > timeout_ms)
        => result = Err("Timeout")

\* C12: with a fuel limit configured every invocation ends, and one whose
\* guest never returns ends with ResourceLimitExceeded.
C12_FuelEndsEveryInvocation ==
    /\ (InFlight /\ config.fuel_limit # <<>>) ~> (pc = "done")
    /\ (pc = "running" /\ config.fuel_limit # <<>> /\ module.loops)
            ~> (pc = "done" /\ result = Err("ResourceLimitExceeded"))

C12_Witness ==
    /\ module.loops /\ config.fuel_limit # <<>>
    /\ pc = "done" /\ fuel = <<0>>
    /\ result = Err("ResourceLimitExceeded")

\* C13: the guest's linear memory never exceeds the configured memory_limit.
C13_MemoryWithinLimit == memory_bytes(memory) <= config.memory_limit

\* C20: every invocation starts with an empty log buffer, a deadline clock
\* that starts at the call, the configured fuel budget, no host call made
\* and no memory, whatever earlier invocations did.
C20_InvocationStartsFresh ==
    [][ (~InFlight /\ pc' = "instantiate") =>
          /\ logs' = <<>>
          /\ start_time' = now
          /\ timeout_ms' = config'.timeout_ms
          /\ fuel' = config'.fuel_limit
          /\ calls' = 0 /\ guest_elapsed' = <<>>
          /\ memory' = 0 ]_vars

C20_Witness ==
    /\ pc = "instantiate"
    /\ now > timeout_ms /\ start_time = now
    /\ fuel = <<MaxFuel>> /\ logs = <<>>

\* C23: the host calls of an invocation take effect in the order the guest
\* issues them: a Log request the guest issued before the deadline is in the
\* log buffer, as the last entry when it was issued last, the buffer holds no
\* more entries than the guest issued requests, and a result returned
\* normally carries the buffer's entries in their order.
C23_LogsInIssueOrder ==
    /\ (calls > 0 /\ guest_request.type = "Log" /\ guest_elapsed[1] <= timeout_ms) =>
            /\ logs # <<>>
            /\ logs[Len(logs)] = <<guest_request.level, guest_request.message>>
    /\ Len(logs) <= calls
    /\ (pc = "done" /\ result.type = "Ok") => result.logs = logs

\* The action named is a function the module exports.
Resolves(mod, name) == \E x \in mod.exports : x.name = name /\ x.func

\* C24: an invocation yields exactly one outcome, produced when it ends; a
\* success is produced only when the module instantiated, the entry point
\* resolved and returned normally, otherwise an error; after the outcome no
\* host call of the invocation is processed and its state no longer changes.
C24_ExactlyOneOutcome ==
    [][ /\ (pc # "done" /\ pc' = "done") =>
                /\ result = NoResult /\ result'.type \in {"Ok", "Err"}
                /\ result'.type = "Ok" =>
                        /\ module.instantiates /\ Resolves(module, action)
                        /\ pc = "returned"
        /\ (InFlight /\ pc' # "done") => (result = NoResult /\ result' = NoResult)
        /\ (pc = "done" /\ pc' = "done") =>
                UNCHANGED <<sandbox_vars, fuel, memory, guest_vars, result>>
        /\ pc = "done" => (pc' \in {"done", "instantiate"} /\ result # NoResult) ]_vars

C24_Witness ==
    /\ pc = "done" /\ result.type = "Ok"
    /\ calls = MaxCalls /\ now > start_time
    /\ module.instantiates /\ Resolves(module, action)

\* C25: an invocation whose module fails to instantiate ends with the error
\* LoadFailed.
C25_InstantiateFailureIsLoadFailed ==
    (pc = "done" /\ ~module.instantiates) => result = Err("LoadFailed")

\* C21: of two calls of execute under way at once, a step of one (a host
\* call, fuel burnt, a trap, its end) leaves the log buffer, the fuel, the
\* deadline and the result of the other as they were.
C21_InvocationsShareNothing ==
    [][ \A caller \in Callers :
            turn' = caller =>
                \A other \in Callers \ {caller} :
                    /\ invocations'[other].logs = invocations[other].logs
                    /\ invocations'[other].fuel = invocations[other].fuel
                    /\ invocations'[other].start_time = invocations[other].start_time
                    /\ invocations'[other].timeout_ms = invocations[other].timeout_ms
                    /\ invocations'[other].result = invocations[other].result
                    /\ invocations'[other] = invocations[other] ]_vars

C21_Witness ==
    /\ invocations[1].pc = "done" /\ invocations[1].fuel = <<0>>
    /\ invocations[1].result = Err("ResourceLimitExceeded")
    /\ invocations[2].pc = "running" /\ invocations[2].fuel = <<MaxFuel>>
    /\ invocations[2].start_time < invocations[1].start_time
    /\ invocations[2].calls = 0 /\ invocations[1].calls > 0

----------------------------------------------------------------------------
(* Properties of the PluginHost *)

\* The step is the call of this operation on the host.
Calls(name) == host_op' # host_op /\ host_op'.op = name

\* The plugin the last operation named.
Target == host_op.id[1]

\* C14: a reload of a loaded plugin that returns an error leaves the plugin
\* in the registry with the instance it had.
C14_FailedReloadKeepsInstance ==
    [][ (Calls("reload_plugin") /\ host_op'.result.type = "Err"
            /\ plugins[host_op'.id[1]].loaded) =>
          plugins' = plugins ]_vars

\* C15: a load that fails leaves the registry exactly as it was, also when
\* the id of the failing configuration is loaded.
C15_FailedLoadKeepsRegistry ==
    [][ (Calls("load_plugin") /\ host_op'.result.type = "Err") =>
          plugins' = plugins ]_vars

C15_Witness ==
    /\ host_op.op = "load_plugin"
    /\ host_op.result = Err("LoadFailed")
    /\ plugins[Target].loaded
    /\ wasm_files[plugins[Target].config.path] = Garbage

\* C16: no step of execute_action, from the call to the return of the
\* invocation, changes the registry, whatever the outcome.
C16_ExecuteKeepsRegistry ==
    [][ (Calls("execute_action") \/ exec_vars' # exec_vars) =>
          plugins' = plugins ]_vars

C16_Witness ==
    /\ host_op.op = "execute_action"
    /\ pc = "done" /\ result = Err("ResourceLimitExceeded")
    /\ plugins[Target].loaded

\* C17: while an execute_action is in flight no other operation of the host
\* takes effect, and the instance it runs stays in the registry as it was.
C17_NoMutationInFlight ==
    [][ InFlight =>
          /\ host_op' = host_op /\ plugins' = plugins
          /\ host_op.op = "execute_action"
          /\ plugins[Target].loaded
          /\ plugins[Target].module = module
          /\ plugins[Target].config.sandbox = config ]_vars

C17_Witness ==
    /\ pc = "running" /\ host_op.op = "execute_action"
    /\ plugins[Target].loaded
    /\ \E path \in PluginPaths : wasm_files[path] = Garbage

\* C18: execute_action returns NotFound exactly when the plugin is not
\* loaded; for a loaded plugin without the action in its list it returns
\* ExecutionFailed and neither makes a sandbox state nor runs the guest; an
\* invocation begins only when the plugin is loaded and lists the action.
C18_ExecuteActionChecksFirst ==
    [][ /\ Calls("execute_action") =>
            LET id   == host_op'.id[1]
                name == host_op'.action
            IN  /\ host_op'.result = Err("NotFound") <=> ~plugins[id].loaded
                /\ (plugins[id].loaded /\ name \notin plugins[id].actions) =>
                        /\ host_op'.result = Err("ExecutionFailed")
                        /\ UNCHANGED <<sandbox_vars, exec_vars>>
                /\ host_op'.result = NoResult =>
                        /\ plugins[id].loaded /\ name \in plugins[id].actions
                        /\ pc' = "instantiate"
        /\ (~InFlight /\ pc' = "instantiate") =>
                /\ host_op'.op = "execute_action"
                /\ plugins[host_op'.id[1]].loaded
                /\ action' = host_op'.action
                /\ action' \in plugins[host_op'.id[1]].actions ]_vars

C18_Witness ==
    /\ host_op.op = "execute_action"
    /\ host_op.result = Err("ExecutionFailed")
    /\ plugins[Target].loaded
    /\ host_op.action = N_absent
    /\ pc = "idle"

\* C19: no loaded plugin lists an action whose name starts with "_", no
\* invocation runs such an action, and no plugin is found to provide one.
C19_NoInternalActions ==
    /\ \A id \in PluginIds :
            plugins[id].loaded => \A name \in plugins[id].actions : name[1] # "_"
    /\ pc # "idle" => action[1] # "_"
    /\ find_plugins_with_action(plugins, N_internal) = {}

C19_Witness ==
    /\ host_op.op = "execute_action"
    /\ host_op.action = N_internal
    /\ host_op.result = Err("ExecutionFailed")
    /\ plugins[Target].loaded
    /\ \E x \in plugins[Target].module.exports : x.name = N_internal /\ x.func

\* C26: a load that succeeds returns the id the configuration sets, else the
\* file stem of its path, else "unknown"; the registry then holds under that
\* id an instance of the configuration whose id() is the id returned, and
\* every other id is as it was.
C26_LoadReturnsAssignedId ==
    [][ (Calls("load_plugin") /\ host_op'.result.type = "Ok") =>
          LET id   == host_op'.result.id
              inst == plugins'[id]
          IN  /\ id \in DOMAIN plugins /\ inst.loaded
              /\ id = IF inst.config.id # <<>> THEN inst.config.id[1]
                       ELSE IF file_stem(inst.config.path) # <<>>
                            THEN file_stem(inst.config.path)[1]
                            ELSE I_unknown
              /\ inst.id = id
              /\ \A other \in DOMAIN plugins \ {id} : plugins'[other] = plugins[other] ]_vars

C26_Witness ==
    /\ host_op.op = "load_plugin" /\ host_op.result = OkId(I_a)
    /\ plugins[I_a].loaded /\ plugins[I_a].id = I_a
    /\ plugins[I_a].config.id = <<I_a>> /\ plugins[I_a].config.path = P_b
    /\ plugins[I_b].loaded /\ plugins[I_b].config.id = <<>>

\* C27: an unload of a loaded id removes that id and leaves every other
\* plugin in place; an unload of an id that is not loaded returns NotFound
\* and leaves the registry as it was.
C27_UnloadRemovesExactlyOne ==
    [][ Calls("unload_plugin") =>
          LET id == host_op'.id[1]
          IN  IF plugins[id].loaded
              THEN /\ host_op'.result = OkUnit
                   /\ ~plugins'[id].loaded
                   /\ \A other \in DOMAIN plugins \ {id} : plugins'[other] = plugins[other]
              ELSE /\ host_op'.result = Err("NotFound")
                   /\ plugins' = plugins ]_vars

C27_Witness ==
    /\ host_op.op = "unload_plugin" /\ host_op.result = OkUnit
    /\ ~plugins[Target].loaded
    /\ \E other \in DOMAIN plugins : plugins[other].loaded

\* The files with the extension "wasm" right under the search paths that
\* exist, and those of them that hold a module.
FoundWasm ==
    { path \in DOMAIN wasm_files :
        /\ extension(path) = << <<"w", "a", "s", "m">> >>
        /\ \E k \in 1..Len(search_paths) :
                exists(search_paths[k]) /\ path \in dir_entries(wasm_files, search_paths[k]) }

LoadableWasm == { path \in FoundWasm : wasm_files[path].kind = "wasm" }

\* C28: discover loads every ".wasm" file of the existing search paths and
\* no other file, passes over those that fail to load, and returns exactly the
\* ids it loaded, each of which is in the registry afterwards.
C28_DiscoverLoadsEveryWasm ==
    [][ Calls("discover_plugins") =>
          LET ids == { file_stem(path)[1] : path \in LoadableWasm }
          IN  /\ host_op'.result.type = "Ok"
              /\ { host_op'.result.ids[k] : k \in 1..Len(host_op'.result.ids) } = ids
              /\ \A path \in LoadableWasm :
                    /\ plugins'[file_stem(path)[1]].loaded
                    /\ plugins'[file_stem(path)[1]].config.path = path
              /\ \A other \in DOMAIN plugins \ ids : plugins'[other] = plugins[other] ]_vars

----------------------------------------------------------------------------
(* Properties of the workflow runner *)

\* The step executes the next action of the event being handled.
Executes == handling # <<>> /\ handling' = Tail(handling)

\* The action returned an error, or a result whose success flag is false.
Unsuccessful(res) == res.type = "Err" \/ (res.type = "Ok" /\ ~res.success)

\* C29: when the runner executes a plugin action of a rule for an event,
\* execute_action is called once, with the plugin id and the action name of
\* the action and a context of the event and the action's config map.
C29_PluginActionReachesRegistry ==
    [][ (Executes /\ Head(handling).action.type = "Plugin") =>
          handled'[1].calls =
            << [plugin_id |-> Head(handling).action.plugin,
                action    |-> Head(handling).action.action,
                ctx       |-> [event  |-> Head(handling).event,
                               config |-> Head(handling).action.config]] >> ]_vars

\* C30: an action that returns an error or an unsuccessful result adds one
\* to error_count and leaves the runner Running, its stop flag, the actions
\* still to execute for the event and the events still to come as they were;
\* those actions are all executed, and so are the later events unless the
\* runner is told to stop.
C30_ErrorsDoNotStopTheLoop ==
    /\ [][ (Executes /\ Unsuccessful(outcome')) =>
              /\ state'.error_count = state.error_count + 1
              /\ state.status = "Running" /\ state'.status = "Running"
              /\ running' = running
              /\ events' = events ]_vars
    /\ \A left \in 1..3 :
          (Unsuccessful(outcome) /\ Len(handling) = left) ~> (Len(handling) = left - 1)
    /\ (Unsuccessful(outcome) /\ events # <<>>) ~> (events = <<>> \/ ~running)

C30_Witness ==
    /\ state.error_count = 2 /\ state.status = "Running" /\ running
    /\ state.actions_executed = 1
    /\ outcome = ActionOk(FALSE)
    /\ handling # <<>> /\ events # <<>>

\* Where an action to execute stands in the configuration: the index of its
\* rule, and its index among the actions of that rule.
RuleIndex(item) == CHOOSE k \in 1..Len(Rules) : Rules[k].name = item.rule
ActionIndex(item) ==
    CHOOSE j \in 1..Len(Rules[RuleIndex(item)].actions) :
        Rules[RuleIndex(item)].actions[j] = item.action
ComesBefore(one, other) ==
    \/ RuleIndex(one) < RuleIndex(other)
    \/ RuleIndex(one) = RuleIndex(other) /\ ActionIndex(one) < ActionIndex(other)

\* The actions of the enabled rules that match the event.
ActionsFor(event) ==
    { [event |-> event, rule |-> Rules[k].name, action |-> Rules[k].actions[j]] :
        <<k, j>> \in { kj \in (1..Len(Rules)) \X (1..2) :
                         /\ kj[2] <= Len(Rules[kj[1]].actions)
                         /\ Rules[kj[1]].enabled
                         /\ rule_matches_static(Rules[kj[1]], event) } }

\* C31: the actions to execute for an event are those of its matched rules,
\* rule after rule in configuration order and within a rule in declared
\* order; they are executed one at a time from the front, the next one only
\* once the one before has returned, whatever it returned, and no other event
\* is begun before the last of them.
C31_ActionsInDeclaredOrder ==
    /\ [][ (handling = <<>> /\ handling' # <<>>) =>
              /\ { handling'[i] : i \in 1..Len(handling') }
                    = ActionsFor(next_event(Head(events))[1])
              /\ \A i, j \in 1..Len(handling') :
                    i < j => ComesBefore(handling'[i], handling'[j]) ]_vars
    /\ [][ handling # <<>> =>
              \/ handling' = handling
              \/ /\ handling' = Tail(handling)
                 /\ handled'[1].rule = Head(handling).rule
                 /\ handled'[1].action = Head(handling).action
                 /\ handled'[1].event = Head(handling).event
                 /\ outcome' \in { ActionOk(TRUE), ActionOk(FALSE), Err("ActionFailed") } ]_vars

C31_Witness ==
    /\ handled # <<>> /\ handled[1].rule = "tidy"
    /\ handling = <<>>
    /\ state.events_processed = 1 /\ state.error_count = 2 /\ state.actions_executed = 2

\* A stop request was made in this status.
StoppedIn(status) == \E made \in stops : made.status = status

\* C32: once the running flag has been cleared while the runner is running,
\* no event the watcher delivers after that is handled: an event the runner
\* begins to handle was sent to the channel before the flag was cleared.
C32_NoEventAfterFlagCleared ==
    [][ \A made \in stops :
            ( /\ made.status = "Running"
              /\ state'.events_processed = state.events_processed + 1 )
            => delivered - Len(events) + 1 <= made.delivered ]_vars

\* C35: after a stop request made while the runner is running, the runner
\* eventually leaves its loop and the status is Stopped, whether or not
\* another event ever comes.
C35_StopEndsTheLoop ==
    StoppedIn("Running") ~> (state.status = "Stopped")

\* C36: a stop request made before run() has stored the running flag is
\* honoured: that run handles no event, and ends in the Stopped status.
C36_EarlyStopHonoured ==
    /\ [](StoppedIn("Idle") => state.events_processed = 0)
    /\ (StoppedIn("Idle") /\ state.status = "Running") ~> (state.status = "Stopped")

----------------------------------------------------------------------------
(* Properties of the plugin records *)

\* The sandbox configuration has been made from the plugin record.
Converted == plugin_load # <<>> /\ config # NoSandboxConfig

\* The capabilities no plugin record can name.
Undeclarable ==
    { AllEnv, Execute("sh") } \cup { Network("host", port) : port \in {<<>>, <<80>>} }

\* C33: the permission set made from a sandbox record holds Time, Random, a
\* ReadPath for every read path, a WritePath for every write path, an Env
\* for every variable listed, and nothing else: no AllEnv, Network or
\* Execute, and a request for one of those is denied.
C33_PermissionsFromRecord ==
    Converted =>
        LET self == plugin_load[1].sandbox
            Listed ==
                {Time, Random}
                \cup { ReadPath(self.read_paths[i]) : i \in 1..Len(self.read_paths) }
                \cup { WritePath(self.write_paths[i]) : i \in 1..Len(self.write_paths) }
                \cup { Env(self.env_vars[i]) : i \in 1..Len(self.env_vars) }
        IN  /\ \A perm \in Listed : \E held \in config.permissions : perm_eq(held, perm)
            /\ \A held \in config.permissions : \E perm \in Listed : perm_eq(held, perm)
            /\ \A held \in config.permissions :
                  held.type \notin {"AllEnv", "Network", "Execute"}
            /\ \A req \in Undeclarable : ~check(fs, config.permissions, req)

C33_Witness ==
    /\ Converted
    /\ plugin_load[1].sandbox.read_paths = <<P_g, P_e>>
    /\ plugin_load[1].sandbox.write_paths = <<P_e>>
    /\ plugin_load[1].sandbox.env_vars = <<"HOME", "PATH">>
    /\ Cardinality(config.permissions) = 7

\* C39: a plugin record without a sandbox record, or with one that leaves
\* out memory_limit or timeout_ms, gives a sandbox configuration with the
\* memory limit and the timeout of SandboxConfig::default(): 64 MiB and
\* 30000 ms.
C39_OmittedLimitsTakeDefaults ==
    Converted =>
        LET rec == plugin_record[1]
        IN  /\ (rec.sandbox = <<>> \/ rec.sandbox[1].memory_limit = <<>>) =>
                  /\ config.memory_limit = 67108864
                  /\ config.memory_limit = DefaultSandboxConfig.memory_limit
            /\ (rec.sandbox = <<>> \/ rec.sandbox[1].timeout_ms = <<>>) =>
                  /\ config.timeout_ms = 30000
                  /\ config.timeout_ms = DefaultSandboxConfig.timeout_ms

----------------------------------------------------------------------------
(* Further properties of one invocation *)

\* C34: whatever the configuration, metered or not, a guest trap with the
\* instruction budget not exhausted and the deadline not passed surfaces as
\* ExecutionFailed, never as ResourceLimitExceeded.
C34_TrapIsExecutionFailed ==
    [][ ( /\ pc = "trapped" /\ pc' = "done"
          /\ (IF fuel = <<>> THEN TRUE ELSE fuel[1] > 0)
          /\ check_timeout(now - start_time, timeout_ms) )
        => result' = Err("ExecutionFailed") ]_vars

----------------------------------------------------------------------------
(* Further properties of handle_request *)

\* C37: handle_request leaves the permission set, the timeout, the start time
\* and the working directory of the sandbox state as they were; a Log request
\* handled before the deadline appends one entry to the log buffer, and every
\* other request, and a Log request after the deadline, leaves it as it was.
C37_RequestsKeepSandboxState ==
    [][ Handled =>
          /\ UNCHANGED <<permissions, timeout_ms, start_time, work_dir>>
          /\ IF request'.type = "Log" /\ BeforeDeadline
             THEN /\ Len(logs') = Len(logs) + 1
                  /\ logs' = Append(logs, <<request'.level, request'.message>>)
             ELSE logs' = logs ]_vars

C37_Witness ==
    /\ request.type = "Log" /\ response = success
    /\ Len(logs) = 1
    /\ permissions # {}

----------------------------------------------------------------------------
(* Further properties of the registry *)

\* PluginHost::plugin_count of a registry
CountOf(reg) == Cardinality({ id \in DOMAIN reg : reg[id].loaded })

\* C38: a load under an id that has an instance replaces it: plugin_count is
\* as before, the instance of the id is of the module now in the file of the
\* configuration loaded, with that module's actions; and execute_action for
\* an id runs the module of the instance the registry has then, for an
\* action of its list.
C38_LoadReplacesInstance ==
    [][ /\ ( /\ Calls("load_plugin") /\ host_op'.result.type = "Ok"
             /\ plugins[host_op'.result.id].loaded ) =>
              LET inst == plugins'[host_op'.result.id]
              IN  /\ CountOf(plugins') = CountOf(plugins)
                  /\ inst.loaded
                  /\ load_module_from_file(wasm_files, inst.config.path).ok
                  /\ inst.module = load_module_from_file(wasm_files, inst.config.path).module
                  /\ inst.actions = exported_actions(inst.module)
        /\ (Calls("execute_action") /\ host_op'.result = NoResult) =>
              LET inst == plugins[host_op'.id[1]]
              IN  /\ module' = inst.module
                  /\ config' = inst.config.sandbox
                  /\ action' \in inst.actions ]_vars

C38_Witness ==
    /\ host_op.op = "execute_action" /\ host_op.id = <<I_a>> /\ host_op.result = NoResult
    /\ plugins[I_a].loaded /\ plugins[I_a].config.path = P_b
    /\ module = plugins[I_a].module
    /\ wasm_files[P_a].kind = "wasm" /\ wasm_files[P_a].module # module
    /\ action = N_memory
    /\ CountOf(plugins) = 1

----------------------------------------------------------------------------
(* Properties of ReadFile *)

\* Base64 of RFC 4648 with padding, from its definition: the bits of the
\* bytes, most significant first, filled with zeros to a multiple of six,
\* six at a time as an index into the alphabet A-Z a-z 0-9 + /, and `=`
\* up to a multiple of four characters.
StandardAlphabet ==
    << "A", "B", "C", "D", "E", "F", "G", "H", "I", "J", "K", "L", "M",
       "N", "O", "P", "Q", "R", "S", "T", "U", "V", "W", "X", "Y", "Z" >>
    \o << "a", "b", "c", "d", "e", "f", "g", "h", "i", "j", "k", "l", "m",
       "n", "o", "p", "q", "r", "s", "t", "u", "v", "w", "x", "y", "z" >>
    \o << "0", "1", "2", "3", "4", "5", "6", "7", "8", "9" >>
    \o << "+", "/" >>

RECURSIVE BitsOf(_)
BitsOf(bytes) ==
    IF bytes = <<>> THEN <<>>
    ELSE [i \in 1..8 |-> (Head(bytes) \div 2^(8 - i)) % 2] \o BitsOf(Tail(bytes))

RECURSIVE Sextets(_)
Sextets(bits) ==
    IF bits = <<>> THEN <<>>
    ELSE IF Len(bits) < 6 THEN Sextets(Append(bits, 0))
    ELSE << StandardAlphabet[ 32 * bits[1] + 16 * bits[2] + 8 * bits[3]
                              + 4 * bits[4] + 2 * bits[5] + bits[6] + 1 ] >>
         \o Sextets(SubSeq(bits, 7, Len(bits)))

RECURSIVE PaddedToFour(_)
PaddedToFour(chars) ==
    IF Len(chars) % 4 = 0 THEN chars ELSE PaddedToFour(Append(chars, "="))

StandardBase64(bytes) == PaddedToFour(Sextets(BitsOf(bytes)))

\* C40: a permitted ReadFile of a file returns Success with `content` the
\* standard base64 of the bytes of the file, padded with `=` to a multiple
\* of four characters, and `size` the number of those bytes.
C40_ReadFileReturnsBase64 ==
    (request.type = "ReadFile" /\ response.type = "Success") =>
        /\ response.data.content = StandardBase64(file_bytes)
        /\ Len(response.data.content) % 4 = 0
        /\ Len(response.data.content) = 4 * ((Len(file_bytes) + 2) \div 3)
        /\ response.data.size = Len(file_bytes)

C40_Witness ==
    /\ request = ReadFile(P_gf) /\ response.type = "Success"
    /\ permissions = {ReadPath(P_g), Time}
    /\ file_bytes = <<104, 105>>
    /\ response.data = [content |-> <<"a", "G", "k", "=">>, size |-> 2]

====
